---- MODULE Spec2Model ----
(***************************************************************************)
(* Model of sync/src/protocol.rs: the eviction pass of SyncProtocol and    *)
(* the relay engine of RelayProtocol (dedup-and-forward, compact-block     *)
(* reconstruction).                                                        *)
(*                                                                         *)
(* Option<T> is modelled as a set with at most one element:                *)
(* None == {} and Some(x) == {x}.                                          *)
(* Time is counted in abstract clock units; CHAIN_SYNC_TIMEOUT and         *)
(* EVICTION_TEST_RESPONSE_TIME are scaled to that unit.                    *)
(***************************************************************************)
EXTENDS Integers, Sequences, FiniteSets, TLC

\* ------------------------------------------------------------------------
\* Bounds of the model
\* ------------------------------------------------------------------------
\* the mock clock runs from 0 to MaxNow
MaxNow == 5
\* the mock clock of the specification with fairness runs from 0 to MaxNowLive
MaxNowLive == 9
\* total difficulties range over 1 .. MaxDifficulty
MaxDifficulty == 2

\* the peer ids the transport hands out
PeerIds == {0, 1}
Difficulties == 1 .. MaxDifficulty
\* the deadline handed to Peers::on_connected: an instant of the clock with
\* instants before it and after it
HeadersSyncTimeouts == {MaxNow - 2}
\* get_headers_sync_timeout(&tip) where the clock and the tip stand still
HeadersSyncTimeoutsAtRest == {MaxNow - 2}

\* transactions are 1 .. MaxTx; a transaction stands for its hash
MaxTx == 3
\* short ids are 0 .. NumShortIds-1
NumShortIds == 2
\* a compact block carries at most MaxShortIds short ids
MaxShortIds == 3
\* a BlockTransactionsRequest asks for indexes 0 .. MaxIndex
MaxIndex == 2

Txs == 1 .. MaxTx
ShortIds == 0 .. (NumShortIds - 1)
\* block headers; a header stands for its hash
Headers == {1, 2}
\* CompactBlock::nonce
Nonces == {0, 1}

\* ------------------------------------------------------------------------
\* Program constants (crate root, imported at protocol.rs:32-34)
\* ------------------------------------------------------------------------
CHAIN_SYNC_TIMEOUT == 2
EVICTION_TEST_RESPONSE_TIME == 1

\* ------------------------------------------------------------------------
\* Option
\* ------------------------------------------------------------------------
None == {}
Some(x) == {x}
IsSome(o) == o # {}
IsNone(o) == o = {}
Unwrap(o) == CHOOSE x \in o : TRUE

VARIABLES
    \* --- Synchronizer / PeerRegistry -------------------------------------
    peer_state,          \* synchronizer.peers.state : PeerId -> PeerState
    best_known_headers,  \* synchronizer.peers.best_known_headers : PeerId -> total_difficulty
    chain_tip,           \* synchronizer.chain.tip_header().total_difficulty
    is_initial_block_download, \* synchronizer.is_initial_block_download()
    \* --- transport (NetworkContext) --------------------------------------
    sessions,            \* nc.session_info : PeerId -> originated
    now,                 \* now_ms()
    \* --- SyncProtocol::eviction ------------------------------------------
    pass,                \* Some(the pass in progress: the peers its loop has not visited
                         \* yet, the is_initial_block_download() it read and the
                         \* iteration it is in)
    pass_done,           \* the last step ended a pass: its report_peer loop has run
    eviction_headers,    \* peers pushed to `eviction` by the headers_sync_timeout rule
    eviction_chain,      \* peers pushed to `eviction` by the chain_sync rule
    getheaders_sent,     \* peers that got the chain_sync GetHeaders probe
    panicked,            \* a handler hit unwrap()/expect()/insert() out of bounds
    \* --- history, per registered peer ------------------------------------
    h_headers_reported,  \* reported by the headers_sync_timeout rule since registration
    h_probe_at,          \* Some(now) of the chain_sync probe sent since chain_sync was last armed
    \* --- RelayProtocol ---------------------------------------------------
    received_blocks,        \* FnvHashSet<H256>
    received_transactions,  \* FnvHashSet<H256>
    pending_compact_blocks, \* FnvHashMap<H256, CompactBlock>
    relay_calls,            \* transport thread -> Some(the process call it is running)
    relay_started,          \* the number of process calls made so far
    \* --- collaborators of RelayProtocol ----------------------------------
    pool,                \* tx_pool.pool : the transactions of the main pool
    orphan,              \* tx_pool.orphan : the transactions of the orphan pool
    chain_blocks,        \* synchronizer.get_block : hash -> block
    \* --- what the RelayProtocol::process call did that returns in this step
    handled,             \* Some(the payload received; with its source peer where
                         \* the payload is relayed)
    admitted,            \* Some(tx) passed to tx_pool.add_to_memory_pool
    submitted,           \* Some(block) passed to synchronizer.process_new_block
    relayed,             \* peers the received payload was forwarded to
    responded,           \* Some(payload) passed to nc.respond_payload
    \* --- one call of reconstruct_block -----------------------------------
    rb_args,             \* the arguments and the pool contents it read
    rb_result,           \* Some(result)
    \* --- the locks taken by the handlers ----------------------------------
    lock_task,           \* thread -> the handler it runs and its position in it
    \* --- SyncProtocol: the task dispatcher --------------------------------
    queue,               \* the items held by the mpsc channel of SyncProtocol::new
    n_sync,              \* synchronizer.n_sync
    outbound_peers_with_protect, \* synchronizer.outbound_peers_with_protect
    running,             \* the spawned tasks that have steps left: launch number -> task
    transport_calls,     \* transport thread -> Some(the connected or timeout call it is running)
    event,               \* Some(the transport call that returns in this step, with what it read)
    \* --- history of the dispatcher ---------------------------------------
    arrived,             \* the item of every sync message handed to read(), in the order of the calls
    enqueued,            \* every item accepted by try_send, in order
    launched,            \* every item the consumer spawned, in order
    h_disconnected,      \* peers whose OnConnected was queued and whose last connected/disconnected call is disconnected
    getheaders_tip       \* peer -> the header the latest GetHeaders sent to it was built from

syncVars == <<peer_state, best_known_headers, chain_tip, is_initial_block_download,
              sessions, now, pass, pass_done, eviction_headers, eviction_chain, getheaders_sent,
              h_headers_reported, h_probe_at, getheaders_tip>>

relayState == <<received_blocks, received_transactions, pending_compact_blocks,
                relay_calls, relay_started, pool, orphan, chain_blocks>>

relayOut == <<handled, admitted, submitted, relayed, responded>>

rbVars == <<rb_args, rb_result>>

lockVars == <<lock_task>>

dispatchVars == <<queue, n_sync, outbound_peers_with_protect, running,
                  transport_calls, event, arrived, enqueued, launched, h_disconnected>>

vars == <<syncVars, relayState, relayOut, rbVars, lockVars, dispatchVars, panicked>>

\* ------------------------------------------------------------------------
\* PeerRegistry
\* ------------------------------------------------------------------------
\* ChainSyncState::default() with the protect flag given at connect
ChainSyncDefault(protect) ==
    [protect |-> protect, timeout |-> 0, work_header |-> None, sent_getheaders |-> FALSE]

\* PeerState::new(headers_sync_timeout, protect)
PeerStateNew(timeout, protect) ==
    [headers_sync_timeout |-> Some(timeout),
     disconnect |-> FALSE,
     chain_sync |-> ChainSyncDefault(protect)]

\* f with key k removed
Remove(f, k) == [x \in (DOMAIN f) \ {k} |-> f[x]]
\* f with key k bound to v
Insert(f, k, v) == [x \in (DOMAIN f) \cup {k} |-> IF x = k THEN v ELSE f[x]]
\* map.get(k)
Get(f, k) == IF k \in DOMAIN f THEN Some(f[k]) ELSE None

EmptyMap == [x \in {} |-> 0]

\* is_outbound(nc, peer)
is_outbound(nc, peer) == Get(nc, peer)

\* ------------------------------------------------------------------------
\* SyncProtocol::eviction, the body of the loop for one peer
\* ------------------------------------------------------------------------
\* mutant: the protect flag exempts a peer from the headers_sync_timeout rule
HeadersSyncExpired_ProtectExempts(state, t, ibd) ==
    /\ IsSome(state.headers_sync_timeout)
    /\ t > Unwrap(state.headers_sync_timeout)
    /\ ibd
    /\ ~state.disconnect
    /\ ~state.chain_sync.protect

\* the headers_sync_timeout rule fires for this peer
HeadersSyncExpired(state, t, ibd) ==
    /\ IsSome(state.headers_sync_timeout)
    /\ t > Unwrap(state.headers_sync_timeout)
    /\ ibd
    /\ ~state.disconnect

\* mutant: the protect flag is not consulted
ChainSyncApplies_IgnoresProtect(state, outbound) ==
    /\ IsSome(outbound)
    /\ Unwrap(outbound)

\* the chain_sync rule is evaluated for this peer
ChainSyncApplies(state, outbound) ==
    /\ IsSome(outbound)
    /\ ~state.chain_sync.protect
    /\ Unwrap(outbound)

\* mutant: an expired chain_sync timeout evicts at once, without the probe
ChainSyncBranch_NoProbe(cs, best_known_header, tip, t) ==
    IF IsSome(best_known_header) /\ Unwrap(best_known_header) >= tip
    THEN IF cs.timeout # 0 THEN "reset" ELSE "none"
    ELSE IF \/ cs.timeout = 0
            \/ /\ IsSome(best_known_header)
               /\ IsSome(cs.work_header)
               /\ Unwrap(best_known_header) >= Unwrap(cs.work_header)
    THEN "arm"
    ELSE IF cs.timeout > 0 /\ t > cs.timeout
    THEN "evict"
    ELSE "none"

\* mutant: the chain_sync record is reset only when the peer is strictly ahead
ChainSyncBranch_StrictlyAhead(cs, best_known_header, tip, t) ==
    IF IsSome(best_known_header) /\ Unwrap(best_known_header) > tip
    THEN IF cs.timeout # 0 THEN "reset" ELSE "none"
    ELSE IF \/ cs.timeout = 0
            \/ /\ IsSome(best_known_header)
               /\ IsSome(cs.work_header)
               /\ Unwrap(best_known_header) >= Unwrap(cs.work_header)
    THEN "arm"
    ELSE IF cs.timeout > 0 /\ t > cs.timeout
    THEN IF cs.sent_getheaders THEN "evict"
         ELSE IF IsNone(cs.work_header) THEN "panic" ELSE "probe"
    ELSE "none"

\* mutant: a peer that was probed is never evicted
ChainSyncBranch_NeverEvicts(cs, best_known_header, tip, t) ==
    IF IsSome(best_known_header) /\ Unwrap(best_known_header) >= tip
    THEN IF cs.timeout # 0 THEN "reset" ELSE "none"
    ELSE IF \/ cs.timeout = 0
            \/ /\ IsSome(best_known_header)
               /\ IsSome(cs.work_header)
               /\ Unwrap(best_known_header) >= Unwrap(cs.work_header)
    THEN "arm"
    ELSE IF cs.timeout > 0 /\ t > cs.timeout
    THEN IF cs.sent_getheaders THEN "none"
         ELSE IF IsNone(cs.work_header) THEN "panic" ELSE "probe"
    ELSE "none"

\* "reset" (S0), "arm" (S1), "probe" (S2), "evict" (S3), "panic", "none"
ChainSyncBranch(cs, best_known_header, tip, t) ==
    IF IsSome(best_known_header) /\ Unwrap(best_known_header) >= tip
    THEN IF cs.timeout # 0 THEN "reset" ELSE "none"
    ELSE IF \/ cs.timeout = 0
            \/ /\ IsSome(best_known_header)
               /\ IsSome(cs.work_header)
               /\ Unwrap(best_known_header) >= Unwrap(cs.work_header)
    THEN "arm"
    ELSE IF cs.timeout > 0 /\ t > cs.timeout
    THEN IF cs.sent_getheaders THEN "evict"
         ELSE IF IsNone(cs.work_header) THEN "panic" ELSE "probe"
    ELSE "none"

\* mutant: arming keeps the work_header recorded before
ChainSyncNext_KeepsWorkHeader(cs, branch, tip, t) ==
    CASE branch = "reset" ->
            [cs EXCEPT !.timeout = 0, !.work_header = None, !.sent_getheaders = FALSE]
      [] branch = "arm" ->
            [cs EXCEPT !.timeout = t + CHAIN_SYNC_TIMEOUT,
                       !.work_header = IF IsSome(cs.work_header)
                                       THEN cs.work_header ELSE Some(tip),
                       !.sent_getheaders = FALSE]
      [] branch \in {"probe", "panic"} ->
            [cs EXCEPT !.sent_getheaders = TRUE,
                       !.timeout = t + EVICTION_TEST_RESPONSE_TIME]
      [] OTHER -> cs

\* mutant: the probe does not give the peer a new timeout
ChainSyncNext_ProbeKeepsTimeout(cs, branch, tip, t) ==
    CASE branch = "reset" ->
            [cs EXCEPT !.timeout = 0, !.work_header = None, !.sent_getheaders = FALSE]
      [] branch = "arm" ->
            [cs EXCEPT !.timeout = t + CHAIN_SYNC_TIMEOUT,
                       !.work_header = Some(tip),
                       !.sent_getheaders = FALSE]
      [] branch \in {"probe", "panic"} ->
            [cs EXCEPT !.sent_getheaders = TRUE]
      [] OTHER -> cs

\* mutant: the reset clears the timeout but keeps the work_header
ChainSyncNext_ResetKeepsWorkHeader(cs, branch, tip, t) ==
    CASE branch = "reset" ->
            [cs EXCEPT !.timeout = 0, !.sent_getheaders = FALSE]
      [] branch = "arm" ->
            [cs EXCEPT !.timeout = t + CHAIN_SYNC_TIMEOUT,
                       !.work_header = Some(tip),
                       !.sent_getheaders = FALSE]
      [] branch \in {"probe", "panic"} ->
            [cs EXCEPT !.sent_getheaders = TRUE,
                       !.timeout = t + EVICTION_TEST_RESPONSE_TIME]
      [] OTHER -> cs

\* chain_sync after the branch has run
ChainSyncNext(cs, branch, tip, t) ==
    CASE branch = "reset" ->
            [cs EXCEPT !.timeout = 0, !.work_header = None, !.sent_getheaders = FALSE]
      [] branch = "arm" ->
            [cs EXCEPT !.timeout = t + CHAIN_SYNC_TIMEOUT,
                       !.work_header = Some(tip),
                       !.sent_getheaders = FALSE]
      [] branch \in {"probe", "panic"} ->
            [cs EXCEPT !.sent_getheaders = TRUE,
                       !.timeout = t + EVICTION_TEST_RESPONSE_TIME]
      [] OTHER -> cs

\* mutant: arming or resetting chain_sync clears the disconnect flag
EvictionState_ArmRevives(state, rule, tip, t) ==
    CASE rule = "headers" -> [state EXCEPT !.disconnect = TRUE]
      [] rule = "evict" -> [state EXCEPT !.disconnect = TRUE]
      [] rule \in {"arm", "reset"} ->
            [state EXCEPT !.disconnect = FALSE,
                          !.chain_sync = ChainSyncNext(state.chain_sync, rule, tip, t)]
      [] OTHER -> [state EXCEPT !.chain_sync = ChainSyncNext(state.chain_sync, rule, tip, t)]

\* PeerState after the loop body
EvictionState(state, rule, tip, t) ==
    CASE rule = "headers" -> [state EXCEPT !.disconnect = TRUE]
      [] rule = "evict" -> [state EXCEPT !.disconnect = TRUE]
      [] OTHER -> [state EXCEPT !.chain_sync = ChainSyncNext(state.chain_sync, rule, tip, t)]

\* is_initial_block_download as the pass sees it: read once, before the loop
PassIBD == IF IsSome(pass) THEN Unwrap(pass).ibd ELSE is_initial_block_download

\* the iteration of the loop that is in progress: Some([peer, now, outbound]),
\* with the now_ms() it read and, once is_outbound has been called and the
\* chain_sync rule applies, Some(what is_outbound gave)
PassCur == IF IsSome(pass) THEN Unwrap(pass).cur ELSE None

\* ------------------------------------------------------------------------
\* RelayProtocol::reconstruct_block
\* ------------------------------------------------------------------------
\* sequences over S of length at most n
SeqsUpTo(S, n) == UNION {[1 .. k -> S] : k \in 0 .. n}
\* the sequences of v without repetition
IsInjective(v) == \A i, j \in 1 .. Len(v) : v[i] = v[j] => i = j
Range(v) == {v[i] : i \in 1 .. Len(v)}
\* get_vertices(): the transactions of a pool, in the order the pool yields them
get_vertices(set) == {v \in [1 .. Cardinality(set) -> set] : IsInjective(v)}

\* short_transaction_id_keys(nonce, header): the two keys of a compact block
short_transaction_id_keys(nonce, header) == <<nonce, header>>

\* short_transaction_id(key0, key1, hash): deterministic, collisions possible
short_transaction_id(key0, key1, hash) == (hash * (key0 + 1) + key1) % NumShortIds

\* txs_map after `for tx in txs { txs_map.insert(short_id, tx) }`: the last
\* transaction inserted under a short id stays
TxsMap(txs, key0, key1) ==
    LET sid(i) == short_transaction_id(key0, key1, txs[i])
        last(s) == CHOOSE i \in 1 .. Len(txs) :
                      /\ sid(i) = s
                      /\ \A j \in 1 .. Len(txs) : sid(j) = s => j <= i
    IN  [s \in {sid(i) : i \in 1 .. Len(txs)} |-> txs[last(s)]]

\* mutant: every transaction is put at the front of the vector
VecInsert_Front(v, index, element) == <<element>> \o v

\* Vec::insert(index, element) for index <= len; index counts from 0
VecInsert(v, index, element) ==
    SubSeq(v, 1, index) \o <<element>> \o SubSeq(v, index + 1, Len(v))

\* the loop over compact_block.short_ids, from position `index` on
RECURSIVE WalkShortIds(_, _, _, _, _)
WalkShortIds(short_ids, index, txs_map, block_transactions, missing_indexes) ==
    IF index = Len(short_ids)
    THEN [panic |-> FALSE,
          block_transactions |-> block_transactions,
          missing_indexes |-> missing_indexes]
    ELSE LET short_id == short_ids[index + 1] IN
         IF short_id \in DOMAIN txs_map
         THEN IF index > Len(block_transactions)
              THEN \* Vec::insert panics: insertion index > len
                   [panic |-> TRUE,
                    block_transactions |-> block_transactions,
                    missing_indexes |-> missing_indexes]
              ELSE WalkShortIds(short_ids, index + 1, Remove(txs_map, short_id),
                                VecInsert(block_transactions, index, txs_map[short_id]),
                                missing_indexes)
         ELSE WalkShortIds(short_ids, index + 1, txs_map, block_transactions,
                           Append(missing_indexes, index))

\* Block::new(header, transactions, uncles)
BlockNew(header, transactions, uncles) ==
    [header |-> header, transactions |-> transactions, uncles |-> uncles]

\* reconstruct_block(compact_block, transactions), with the vertices the two
\* pools yield; the result is (Option<block>, Option<missing indexes>) or a panic
reconstruct_block(compact_block, transactions, pool_vertices, orphan_vertices) ==
    LET keys == short_transaction_id_keys(compact_block.nonce, compact_block.header)
        txs == transactions \o pool_vertices \o orphan_vertices
        w == WalkShortIds(compact_block.short_ids, 0, TxsMap(txs, keys[1], keys[2]),
                          <<>>, <<>>)
    IN  IF w.panic
        THEN [panic |-> TRUE, block |-> None, missing_indexes |-> None]
        ELSE IF w.missing_indexes = <<>>
        THEN [panic |-> FALSE,
              block |-> Some(BlockNew(compact_block.header, w.block_transactions,
                                      compact_block.uncles)),
              missing_indexes |-> None]
        ELSE [panic |-> FALSE, block |-> None,
              missing_indexes |-> Some(w.missing_indexes)]

\* ------------------------------------------------------------------------
\* Initial state: after Synchronizer::new / SyncProtocol::new
\* ------------------------------------------------------------------------
InitSync ==
    /\ peer_state = EmptyMap
    /\ best_known_headers = EmptyMap
    /\ chain_tip = 1
    /\ is_initial_block_download \in BOOLEAN
    /\ sessions = EmptyMap
    /\ now = 0
    /\ pass = None
    /\ pass_done = FALSE
    /\ eviction_headers = {}
    /\ eviction_chain = {}
    /\ getheaders_sent = {}
    /\ h_headers_reported = EmptyMap
    /\ h_probe_at = EmptyMap
    /\ getheaders_tip = EmptyMap

\* the transport threads that call RelayProtocol::read at the same time
RelayThreads == {1, 2}
\* at most MaxRelayCalls payloads are received in a behaviour
MaxRelayCalls == 4

\* after RelayProtocol::new(synchronizer, tx_pool), the main pool holding
\* `transactions`, with an empty orphan pool and chain store
InitRelayOver(transactions) ==
    /\ relay_calls = [t \in RelayThreads |-> None]
    /\ relay_started = 0
    /\ received_blocks = {}
    /\ received_transactions = {}
    /\ pending_compact_blocks = EmptyMap
    /\ pool = transactions
    /\ orphan = {}
    /\ chain_blocks = EmptyMap
    /\ handled = None
    /\ admitted = None
    /\ submitted = None
    /\ relayed = {}
    /\ responded = None

\* after RelayProtocol::new, with an empty transaction pool and chain store
InitRelay == InitRelayOver({})

\* reconstruct_block not called
InitNoCall ==
    /\ rb_args = None
    /\ rb_result = None

\* the threads that run handlers at the same time
LockTasks == {1, 2, 3}

\* no handler is running: every lock is free
InitLocksFree == lock_task = [t \in LockTasks |-> [path |-> "idle", pc |-> 1]]

\* the transport threads that call the handlers of SyncProtocol at the same time
TransportThreads == {1, 2}

\* after SyncProtocol::new: an empty channel, no task spawned, counters at 0
InitDispatchIdle ==
    /\ transport_calls = [t \in TransportThreads |-> None]
    /\ queue = <<>>
    /\ n_sync = 0
    /\ outbound_peers_with_protect = 0
    /\ running = EmptyMap
    /\ event = None
    /\ arrived = <<>>
    /\ enqueued = <<>>
    /\ launched = <<>>
    /\ h_disconnected = {}

Init ==
    /\ InitSync
    /\ InitRelay
    /\ InitNoCall
    /\ InitDispatchIdle
    /\ InitLocksFree
    /\ panicked = FALSE

\* ------------------------------------------------------------------------
\* Actions of the sync side
\* ------------------------------------------------------------------------
\* the step is no step of eviction: a pass in progress keeps its `eviction`
\* vector and the probes it has sent
NoEvictionOutput ==
    /\ UNCHANGED pass
    /\ IF IsSome(pass)
       THEN UNCHANGED <<pass_done, eviction_headers, eviction_chain,
                        getheaders_sent, getheaders_tip>>
       ELSE /\ pass_done' = FALSE
            /\ eviction_headers' = {}
            /\ eviction_chain' = {}
            /\ getheaders_sent' = {}
            /\ getheaders_tip' = EmptyMap

\* peers.state and peers.best_known_headers are not held by a pass of eviction
RegistryFree == IsNone(pass)

\* the handler is not RelayProtocol::process
NoRelayOutput ==
    /\ handled' = None
    /\ admitted' = None
    /\ submitted' = None
    /\ relayed' = {}
    /\ responded' = None

\* the step is no call of read, connected or timeout and runs no queued item
DispatchUntouched ==
    /\ event' = None
    /\ UNCHANGED <<queue, n_sync, outbound_peers_with_protect, running,
                   transport_calls, arrived, enqueued, launched, h_disconnected>>

\* a handler of the sync side leaves the relay side alone
RelayUntouched ==
    /\ NoRelayOutput
    /\ DispatchUntouched
    /\ UNCHANGED <<relayState, rbVars, lockVars>>

\* Peers::on_connected(peer, headers_sync_timeout, protect): idempotent insert
PeersOnConnected(peer, timeout, protect) ==
    /\ ~panicked
    /\ RegistryFree
    /\ IF peer \in DOMAIN peer_state
       THEN UNCHANGED <<peer_state, h_headers_reported, h_probe_at>>
       ELSE /\ peer_state' = Insert(peer_state, peer, PeerStateNew(timeout, protect))
            /\ h_headers_reported' = Insert(h_headers_reported, peer, FALSE)
            /\ h_probe_at' = Insert(h_probe_at, peer, None)
    /\ NoEvictionOutput
    /\ RelayUntouched
    /\ UNCHANGED <<best_known_headers, chain_tip, is_initial_block_download,
                   sessions, now, panicked>>

\* SyncProtocol::disconnected -> Peers::disconnected(peer)
disconnected(peer) ==
    /\ ~panicked
    /\ RegistryFree
    /\ peer_state' = Remove(peer_state, peer)
    /\ best_known_headers' = Remove(best_known_headers, peer)
    /\ h_headers_reported' = Remove(h_headers_reported, peer)
    /\ h_probe_at' = Remove(h_probe_at, peer)
    /\ h_disconnected' =
          IF \E k \in 1 .. Len(enqueued) :
                enqueued[k].kind = "OnConnected" /\ enqueued[k].peer = peer
          THEN h_disconnected \cup {peer}
          ELSE h_disconnected
    /\ NoEvictionOutput
    /\ NoRelayOutput
    /\ event' = None
    /\ UNCHANGED <<queue, n_sync, outbound_peers_with_protect, running,
                   transport_calls, arrived, enqueued, launched, relayState, rbVars, lockVars>>
    /\ UNCHANGED <<chain_tip, is_initial_block_download, sessions, now, panicked>>

\* Peers::new_header_received(peer, header_view): keep the higher difficulty
new_header_received(peer, total_difficulty) ==
    /\ ~panicked
    /\ RegistryFree
    /\ peer \in DOMAIN peer_state
    /\ best_known_headers' =
          IF peer \in DOMAIN best_known_headers
             /\ best_known_headers[peer] >= total_difficulty
          THEN best_known_headers
          ELSE Insert(best_known_headers, peer, total_difficulty)
    /\ NoEvictionOutput
    /\ RelayUntouched
    /\ UNCHANGED <<peer_state, chain_tip, is_initial_block_download, sessions, now,
                   h_headers_reported, h_probe_at, panicked>>

\* the transport opens a session, inbound or outbound (originated)
SessionOpen(peer, originated) ==
    /\ ~panicked
    /\ peer \notin DOMAIN sessions
    /\ sessions' = Insert(sessions, peer, originated)
    /\ NoEvictionOutput
    /\ RelayUntouched
    /\ UNCHANGED <<peer_state, best_known_headers, chain_tip, is_initial_block_download,
                   now, h_headers_reported, h_probe_at, panicked>>

\* the transport ends a session
SessionClose(peer) ==
    /\ ~panicked
    /\ peer \in DOMAIN sessions
    /\ sessions' = Remove(sessions, peer)
    /\ NoEvictionOutput
    /\ RelayUntouched
    /\ UNCHANGED <<peer_state, best_known_headers, chain_tip, is_initial_block_download,
                   now, h_headers_reported, h_probe_at, panicked>>

\* the clock advances (set_mock_timer in the tests), within a range that ends
\* at `last`
ClockAdvance(last) ==
    /\ ~panicked
    /\ now < last
    /\ now' = now + 1
    /\ NoEvictionOutput
    /\ RelayUntouched
    /\ UNCHANGED <<peer_state, best_known_headers, chain_tip, is_initial_block_download,
                   sessions, h_headers_reported, h_probe_at, panicked>>

Tick == ClockAdvance(MaxNow)

\* the chain provider accepts a block: our tip gains work
TipAdvance ==
    /\ ~panicked
    /\ chain_tip < MaxDifficulty
    /\ chain_tip' = chain_tip + 1
    /\ NoEvictionOutput
    /\ RelayUntouched
    /\ UNCHANGED <<peer_state, best_known_headers, is_initial_block_download,
                   sessions, now, h_headers_reported, h_probe_at, panicked>>

\* the tip becomes fresh or stale: is_initial_block_download() changes
ToggleInitialBlockDownload ==
    /\ ~panicked
    /\ is_initial_block_download' = ~is_initial_block_download
    /\ NoEvictionOutput
    /\ RelayUntouched
    /\ UNCHANGED <<peer_state, best_known_headers, chain_tip,
                   sessions, now, h_headers_reported, h_probe_at, panicked>>

\* SyncProtocol::eviction, before the loop: take peers.state (write) and
\* peers.best_known_headers (read), read is_initial_block_download() once and
\* start with an empty `eviction` vector
EvictionBegin ==
    /\ ~panicked
    /\ RegistryFree
    /\ pass' = Some([todo |-> DOMAIN peer_state, ibd |-> is_initial_block_download,
                     cur |-> None])
    /\ pass_done' = FALSE
    /\ eviction_headers' = {}
    /\ eviction_chain' = {}
    /\ getheaders_sent' = {}
    /\ getheaders_tip' = EmptyMap
    /\ RelayUntouched
    /\ UNCHANGED <<peer_state, best_known_headers, chain_tip, is_initial_block_download,
                   sessions, now, h_headers_reported, h_probe_at, panicked>>

\* the iteration for `peer` ends: the loop goes to the next peer
PassNext(peer) == Some([Unwrap(pass) EXCEPT !.todo = @ \ {peer}, !.cur = None])

\* a step of the loop leaves the relay side, the registry of headers and the
\* environment alone
EvictionStepFrame ==
    /\ pass_done' = FALSE
    /\ RelayUntouched
    /\ UNCHANGED <<best_known_headers, chain_tip, is_initial_block_download,
                   sessions, now, h_headers_reported>>

\* SyncProtocol::eviction, the loop body for one peer, in the order the map
\* yields the peers: `let now = now_ms();` and the headers_sync_timeout rule,
\* which ends the iteration (`continue`) when it takes the peer
EvictionNow(peer) ==
    /\ ~panicked
    /\ IsSome(pass)
    /\ IsNone(PassCur)
    /\ peer \in Unwrap(pass).todo
    /\ IF HeadersSyncExpired(peer_state[peer], now, Unwrap(pass).ibd)
       THEN /\ peer_state' = [peer_state EXCEPT ![peer] =
                                 EvictionState(peer_state[peer], "headers", chain_tip, now)]
            /\ eviction_headers' = eviction_headers \cup {peer}
            /\ pass' = PassNext(peer)
       ELSE /\ pass' = Some([Unwrap(pass) EXCEPT
                                !.cur = Some([peer |-> peer, now |-> now,
                                              outbound |-> None])])
            /\ UNCHANGED <<peer_state, eviction_headers>>
    /\ UNCHANGED <<eviction_chain, getheaders_sent, getheaders_tip, h_probe_at, panicked>>
    /\ EvictionStepFrame

\* the loop body: `if let Some(is_outbound) = is_outbound(nc, *peer)` and
\* `if !state.chain_sync.protect && is_outbound`; the iteration ends when the
\* peer has no session, is inbound or is protected
EvictionSession(peer) ==
    /\ ~panicked
    /\ \E c \in PassCur :
          /\ c.peer = peer
          /\ IsNone(c.outbound)
          /\ LET outbound == is_outbound(sessions, peer) IN
             pass' = IF ChainSyncApplies(peer_state[peer], outbound)
                     THEN Some([Unwrap(pass) EXCEPT
                                   !.cur = Some([c EXCEPT !.outbound = outbound])])
                     ELSE PassNext(peer)
    /\ UNCHANGED <<peer_state, eviction_headers, eviction_chain, getheaders_sent,
                   getheaders_tip, h_probe_at, panicked>>
    /\ EvictionStepFrame

\* the loop body: best_known_headers.get(peer), the read of the tip and the
\* chain_sync rule, evaluated with the now_ms() read when the iteration
\* began.  When unwrap() of an absent work_header panics the pass ends here:
\* the `eviction` vector is dropped unreported and the peers not yet visited
\* are left as they were.
EvictionTip(peer) ==
    /\ ~panicked
    /\ \E c \in PassCur :
          /\ c.peer = peer
          /\ IsSome(c.outbound)
          /\ LET rule == ChainSyncBranch(peer_state[peer].chain_sync,
                                         Get(best_known_headers, peer), chain_tip, c.now)
             IN
             /\ peer_state' = [peer_state EXCEPT ![peer] =
                                  EvictionState(peer_state[peer], rule, chain_tip, c.now)]
             /\ h_probe_at' = [h_probe_at EXCEPT ![peer] =
                                  CASE rule = "probe" -> Some(c.now)
                                    [] rule \in {"arm", "reset"} -> None
                                    [] OTHER -> h_probe_at[peer]]
             /\ IF rule = "panic"
                THEN /\ panicked' = TRUE
                     /\ pass' = None
                     /\ eviction_headers' = {}
                     /\ eviction_chain' = {}
                     /\ UNCHANGED <<getheaders_sent, getheaders_tip>>
                ELSE /\ panicked' = FALSE
                     /\ pass' = PassNext(peer)
                     /\ UNCHANGED eviction_headers
                     /\ eviction_chain' = IF rule = "evict"
                                          THEN eviction_chain \cup {peer}
                                          ELSE eviction_chain
                     /\ IF rule = "probe"
                        THEN /\ getheaders_sent' = getheaders_sent \cup {peer}
                             /\ getheaders_tip' =
                                   Insert(getheaders_tip, peer,
                                          Unwrap(peer_state[peer].chain_sync.work_header))
                        ELSE UNCHANGED <<getheaders_sent, getheaders_tip>>
    /\ EvictionStepFrame

\* SyncProtocol::eviction, after the loop: report_peer(peer, Severity::Timeout)
\* for every peer of the `eviction` vector, then the two locks are released
EvictionReport ==
    /\ ~panicked
    /\ IsSome(pass)
    /\ Unwrap(pass).todo = {}
    /\ pass' = None
    /\ pass_done' = TRUE
    /\ h_headers_reported' = [p \in DOMAIN peer_state |->
                                h_headers_reported[p] \/ p \in eviction_headers]
    /\ RelayUntouched
    /\ UNCHANGED <<peer_state, best_known_headers, chain_tip, is_initial_block_download,
                   sessions, now, eviction_headers, eviction_chain, getheaders_sent,
                   getheaders_tip, h_probe_at, panicked>>

\* SyncProtocol::eviction(synchronizer, nc): one step of a pass over all peer states
eviction ==
    \/ EvictionBegin
    \/ \E p \in PeerIds : EvictionNow(p)
    \/ \E p \in PeerIds : EvictionSession(p)
    \/ \E p \in PeerIds : EvictionTip(p)
    \/ EvictionReport

NextSync ==
    \/ \E p \in PeerIds, t \in HeadersSyncTimeouts, b \in BOOLEAN : PeersOnConnected(p, t, b)
    \/ \E p \in PeerIds : disconnected(p)
    \/ \E p \in PeerIds, d \in Difficulties : new_header_received(p, d)
    \/ \E p \in PeerIds, o \in BOOLEAN : SessionOpen(p, o)
    \/ Tick
    \/ TipAdvance
    \/ ToggleInitialBlockDownload
    \/ eviction

Next == NextSync

Spec == Init /\ [][Next]_vars

\* ------------------------------------------------------------------------
\* The sync side with passes that keep occurring and a clock that keeps
\* advancing: the clock moves freely, by several units between two passes
\* as in the tests; a pass that has begun goes on and a new one begins, and
\* the clock moves on while it is below the end of its range.
\* ------------------------------------------------------------------------
\* the loop body of eviction reads and writes the state of one peer only: the
\* liveness of a peer's eviction is checked with that peer alone
LivePeers == {0}

\* the clock of this specification has a longer range, so that a peer can be
\* armed, probed and evicted at many instants
TickLive == ClockAdvance(MaxNowLive)

NextLive ==
    \/ \E p \in LivePeers, t \in HeadersSyncTimeouts, protect \in BOOLEAN :
          PeersOnConnected(p, t, protect)
    \/ \E p \in LivePeers : disconnected(p)
    \/ \E p \in LivePeers, d \in Difficulties : new_header_received(p, d)
    \/ \E p \in LivePeers, originated \in BOOLEAN : SessionOpen(p, originated)
    \/ TickLive
    \/ TipAdvance
    \/ ToggleInitialBlockDownload
    \/ eviction

SpecLive ==
    /\ Init
    /\ [][NextLive]_vars
    /\ WF_vars(eviction)
    /\ WF_vars(TickLive)

\* ------------------------------------------------------------------------
\* RelayProtocol
\* ------------------------------------------------------------------------
\* the transactions of the block with header h: the hash fixes the content
BlockTxs(h) == <<h, (h % MaxTx) + 1>>

\* the full block a peer sends for header h
BlockOf(h) == BlockNew(h, BlockTxs(h), <<>>)

\* the compact block an honest peer builds for header h with the given nonce
CompactBlockOf(h, nonce) ==
    LET keys == short_transaction_id_keys(nonce, h) IN
    [header |-> h, nonce |-> nonce,
     short_ids |-> [i \in 1 .. Len(BlockTxs(h)) |->
                      short_transaction_id(keys[1], keys[2], BlockTxs(h)[i])],
     uncles |-> <<>>]

\* ckb_protocol::Payload::new(): no field set
PayloadNew == [block_transactions_request |-> None, block_transactions |-> None]

\* HashSet::insert(value): true when the value was not present
HashSetInsert(set, value) == value \notin set

\* the condition `!set.lock().insert(hash)` that guards the processing of a
\* transaction, a block and a compact block
ProcessGate(set, hash) == ~HashSetInsert(set, hash)

\* RelayProtocol::relay: the peers the payload is sent to, those of peer_ids
\* that nc.sessions yields, the source left out
RelayTargets(peer_ids, nc, source) ==
    {peer_id \in peer_ids \cap (DOMAIN nc) : peer_id # source}

\* synchronizer.process_new_block: the chain store keeps the block
ProcessNewBlock(blocks, block) ==
    IF block.header \in DOMAIN blocks THEN blocks
    ELSE Insert(blocks, block.header, block)

\* the transactions of `block` at the requested indexes, out of range dropped
\* (indexes.iter().filter_map(|i| block.transactions.get(i)))
RequestedTransactions(block, indexes) ==
    LET inRange == {k \in 1 .. Len(indexes) : indexes[k] < Len(block.transactions)}
        pick[k \in 0 .. Len(indexes)] ==
            IF k = 0 THEN <<>>
            ELSE IF k \in inRange
                 THEN Append(pick[k - 1], block.transactions[indexes[k] + 1])
                 ELSE pick[k - 1]
    IN  pick[Len(indexes)]

\* a handler of the relay side leaves the sync side alone
SyncUntouched ==
    /\ NoEvictionOutput
    /\ DispatchUntouched
    /\ UNCHANGED <<peer_state, best_known_headers, chain_tip, is_initial_block_download,
                   sessions, now, h_headers_reported, h_probe_at, rbVars, lockVars>>

\* the thread runs no call; the threads are interchangeable, and a payload
\* is handed to the idle thread of least number
ThreadFree(t) ==
    /\ IsNone(relay_calls[t])
    /\ \A u \in RelayThreads : u < t => IsSome(relay_calls[u])

\* NetworkProtocolHandler::read of RelayProtocol is called on thread t
ReadOn(t) ==
    /\ ThreadFree(t)
    /\ relay_started < MaxRelayCalls
    /\ relay_started' = relay_started + 1

\* the Mutex of pending_compact_blocks is free: the guard taken in the
\* scrutinee of `if let Some(compact_block) = ...lock().remove(&hash)` lives
\* until the end of the if-let
PendingFree ==
    \A t \in RelayThreads :
        \A c \in relay_calls[t] : c.call.kind # "block_transactions"

\* the call goes on: nothing is returned in this step
Continue(t, c) ==
    /\ relay_calls' = [relay_calls EXCEPT ![t] = Some(c)]
    /\ NoRelayOutput

\* process() returns
Return(t, call, adm, sub, rel, resp) ==
    /\ relay_calls' = [relay_calls EXCEPT ![t] = None]
    /\ handled' = Some(call)
    /\ admitted' = adm
    /\ submitted' = sub
    /\ relayed' = rel
    /\ responded' = resp

\* process(): payload.has_transaction(), up to the end of the `if` condition,
\* where the guard of received_transactions is dropped
ReceiveTransaction(t, peer, tx) ==
    /\ ~panicked
    /\ ReadOn(t)
    /\ received_transactions' = received_transactions \cup {tx}
    /\ LET call == [kind |-> "transaction", peer |-> peer, hash |-> tx,
                    newly |-> HashSetInsert(received_transactions, tx)]
       IN  IF ProcessGate(received_transactions, tx)
           THEN Continue(t, [call |-> call, pc |-> "add_to_memory_pool",
                             admitted |-> None, submitted |-> None])
           ELSE Return(t, call, None, None, {}, None)
    /\ SyncUntouched
    /\ UNCHANGED <<received_blocks, pending_compact_blocks, pool, orphan,
                   chain_blocks, panicked>>

\* process(): tx_pool.add_to_memory_pool(tx); the pool's admission policy decides
AddToMemoryPool(t) ==
    /\ ~panicked
    /\ \E c \in relay_calls[t] :
          /\ c.pc = "add_to_memory_pool"
          /\ \/ pool' = pool \cup {c.call.hash}
             \/ pool' = pool
          /\ Continue(t, [c EXCEPT !.pc = "relay", !.admitted = Some(c.call.hash)])
    /\ UNCHANGED relay_started
    /\ SyncUntouched
    /\ UNCHANGED <<received_blocks, received_transactions, pending_compact_blocks,
                   orphan, chain_blocks, panicked>>

\* process(): payload.has_block(), up to the end of the `if` condition
ReceiveBlock(t, peer, h) ==
    /\ ~panicked
    /\ ReadOn(t)
    /\ received_blocks' = received_blocks \cup {h}
    /\ LET call == [kind |-> "block", peer |-> peer, hash |-> h,
                    newly |-> HashSetInsert(received_blocks, h)]
       IN  IF ProcessGate(received_blocks, h)
           THEN Continue(t, [call |-> call, pc |-> "process_new_block",
                             admitted |-> None, submitted |-> None,
                             block |-> BlockOf(h)])
           ELSE Return(t, call, None, None, {}, None)
    /\ SyncUntouched
    /\ UNCHANGED <<received_transactions, pending_compact_blocks, pool, orphan,
                   chain_blocks, panicked>>

\* process(): payload.has_compact_block(), up to the end of the `if` condition
ReceiveCompactBlock(t, peer, h, nonce) ==
    /\ ~panicked
    /\ ReadOn(t)
    /\ received_blocks' = received_blocks \cup {h}
    /\ LET call == [kind |-> "compact_block", peer |-> peer, hash |-> h,
                    nonce |-> nonce,
                    newly |-> HashSetInsert(received_blocks, h)]
       IN  IF ProcessGate(received_blocks, h)
           THEN Continue(t, [call |-> call, pc |-> "reconstruct_block",
                             admitted |-> None, submitted |-> None,
                             compact_block |-> CompactBlockOf(h, nonce),
                             transactions |-> <<>>])
           ELSE Return(t, call, None, None, {}, None)
    /\ SyncUntouched
    /\ UNCHANGED <<received_transactions, pending_compact_blocks, pool, orphan,
                   chain_blocks, panicked>>

\* process(): payload.has_block_transactions(), the scrutinee of the if-let:
\* the entry is removed and the Mutex stays locked until process() returns
ReceiveBlockTransactions(t, peer, hash, transactions) ==
    /\ ~panicked
    /\ ReadOn(t)
    /\ PendingFree
    /\ pending_compact_blocks' = Remove(pending_compact_blocks, hash)
    /\ LET call == [kind |-> "block_transactions",
                    hash |-> hash, transactions |-> transactions,
                    removed |-> Get(pending_compact_blocks, hash),
                    candidates |-> None]
       IN  IF hash \in DOMAIN pending_compact_blocks
           THEN Continue(t, [call |-> call, pc |-> "reconstruct_block",
                             admitted |-> None, submitted |-> None,
                             compact_block |-> pending_compact_blocks[hash],
                             transactions |-> transactions])
           ELSE Return(t, call, None, None, {}, None)
    /\ SyncUntouched
    /\ UNCHANGED <<received_blocks, received_transactions, pool, orphan,
                   chain_blocks, panicked>>

\* reconstruct_block, `txs.extend(self.tx_pool.pool.read().pool.get_vertices())`:
\* the call keeps what it read and the guard is dropped with the statement,
\* so the pool can change before the rest of reconstruct_block runs
ReconstructReadPool(t) ==
    /\ ~panicked
    /\ \E c \in relay_calls[t] :
          /\ c.pc = "reconstruct_block"
          /\ \E pool_vertices \in get_vertices(pool) :
                Continue(t, [call |-> c.call, pc |-> "reconstruct_orphan",
                             admitted |-> None, submitted |-> None,
                             compact_block |-> c.compact_block,
                             transactions |-> c.transactions,
                             pool_vertices |-> pool_vertices])
    /\ UNCHANGED relay_started
    /\ SyncUntouched
    /\ UNCHANGED <<received_blocks, received_transactions, pending_compact_blocks,
                   pool, orphan, chain_blocks, panicked>>

\* the rest of reconstruct_block, from the read of the orphan pool, and the
\* match of process() on its result.  The orphan pool is written by no
\* handler and what follows its read touches no shared state, so the read and
\* what follows are one step.
CallReconstruct(t) ==
    /\ ~panicked
    /\ \E c \in relay_calls[t] :
          /\ c.pc = "reconstruct_orphan"
          /\ \E orphan_vertices \in get_vertices(orphan) :
                LET r == reconstruct_block(c.compact_block, c.transactions,
                                           c.pool_vertices, orphan_vertices)
                    call == IF c.call.kind = "block_transactions"
                            THEN [c.call EXCEPT
                                     !.candidates =
                                        Some(Range(c.pool_vertices) \cup orphan)]
                            ELSE c.call
                IN  CASE r.panic ->
                           /\ panicked' = TRUE
                           /\ relay_calls' = [relay_calls EXCEPT ![t] = None]
                           /\ NoRelayOutput
                      [] ~r.panic /\ IsSome(r.block) ->
                           /\ Continue(t, [call |-> call, pc |-> "process_new_block",
                                           admitted |-> None, submitted |-> None,
                                           block |-> Unwrap(r.block)])
                           /\ UNCHANGED panicked
                      [] ~r.panic /\ IsNone(r.block) /\ c.call.kind = "compact_block" ->
                           /\ Continue(t, [call |-> call, pc |-> "request",
                                           admitted |-> None, submitted |-> None,
                                           compact_block |-> c.compact_block,
                                           missing_indexes |-> Unwrap(r.missing_indexes)])
                           /\ UNCHANGED panicked
                      [] ~r.panic /\ IsNone(r.block) /\ c.call.kind # "compact_block" ->
                           /\ Return(t, call, None, None, {}, None)
                           /\ UNCHANGED panicked
    /\ UNCHANGED relay_started
    /\ SyncUntouched
    /\ UNCHANGED <<received_blocks, received_transactions, pending_compact_blocks,
                   pool, orphan, chain_blocks>>

\* process(): synchronizer.process_new_block(peer, block); a BlockTransactions
\* message is not relayed
SubmitBlock(t) ==
    /\ ~panicked
    /\ \E c \in relay_calls[t] :
          /\ c.pc = "process_new_block"
          /\ chain_blocks' = ProcessNewBlock(chain_blocks, c.block)
          /\ IF c.call.kind = "block_transactions"
             THEN Return(t, c.call, None, Some(c.block), {}, None)
             ELSE Continue(t, [call |-> c.call, pc |-> "relay",
                               admitted |-> None, submitted |-> Some(c.block)])
    /\ UNCHANGED relay_started
    /\ SyncUntouched
    /\ UNCHANGED <<received_blocks, received_transactions, pending_compact_blocks,
                   pool, orphan, panicked>>

\* RelayProtocol::relay(nc, source, payload), the last call of process():
\* `let peer_ids = self.synchronizer.peers.state.read().keys().cloned().collect();`
RelayKeys(t) ==
    /\ ~panicked
    /\ RegistryFree
    /\ \E c \in relay_calls[t] :
          /\ c.pc = "relay"
          /\ Continue(t, [call |-> c.call, pc |-> "sessions",
                          admitted |-> c.admitted, submitted |-> c.submitted,
                          peer_ids |-> DOMAIN peer_state])
    /\ UNCHANGED relay_started
    /\ SyncUntouched
    /\ UNCHANGED <<received_blocks, received_transactions, pending_compact_blocks,
                   pool, orphan, chain_blocks, panicked>>

\* relay: `for (peer_id, _session) in nc.sessions(&peer_ids)` and the sends,
\* which go to the transport
RelaySessions(t) ==
    /\ ~panicked
    /\ \E c \in relay_calls[t] :
          /\ c.pc = "sessions"
          /\ Return(t, c.call, c.admitted, c.submitted,
                    RelayTargets(c.peer_ids, sessions, c.call.peer), None)
    /\ UNCHANGED relay_started
    /\ SyncUntouched
    /\ UNCHANGED <<received_blocks, received_transactions, pending_compact_blocks,
                   pool, orphan, chain_blocks, panicked>>

\* RelayProtocol::relay(nc, source, payload): one step of the call
relay(t) ==
    \/ RelayKeys(t)
    \/ RelaySessions(t)

\* process(): the compact block has missing transactions: it is stored in
\* pending_compact_blocks and a BlockTransactionsRequest is sent back
RequestMissing(t) ==
    /\ ~panicked
    /\ PendingFree
    /\ \E c \in relay_calls[t] :
          /\ c.pc = "request"
          /\ pending_compact_blocks' =
                Insert(pending_compact_blocks, c.call.hash, c.compact_block)
          /\ Return(t, c.call, None, None, {},
                    Some([PayloadNew EXCEPT !.block_transactions_request =
                            Some([hash |-> c.call.hash,
                                  indexes |-> c.missing_indexes])]))
    /\ UNCHANGED relay_started
    /\ SyncUntouched
    /\ UNCHANGED <<received_blocks, received_transactions, pool, orphan,
                   chain_blocks, panicked>>

\* process(): payload.has_block_transactions_request(): get_block is the one
\* read of shared state
ReceiveBlockTransactionsRequest(t, peer, hash, indexes) ==
    /\ ~panicked
    /\ ReadOn(t)
    /\ Return(t, [kind |-> "block_transactions_request",
                  hash |-> hash, indexes |-> indexes],
              None, None, {},
              IF hash \in DOMAIN chain_blocks
              THEN \* bt is built but never put into the payload
                   LET bt == [hash |-> hash,
                              transactions |->
                                  RequestedTransactions(chain_blocks[hash], indexes)]
                   IN  Some(PayloadNew)
              ELSE None)
    /\ SyncUntouched
    /\ UNCHANGED <<received_blocks, received_transactions, pending_compact_blocks,
                   pool, orphan, chain_blocks, panicked>>

\* the indexes lists a BlockTransactionsRequest carries: none, one, two in
\* descending order, one out of range
IndexLists == {<<>>, <<0>>, <<1, 0>>, <<MaxIndex, 0>>}
\* the transaction lists a BlockTransactions message carries: none, one, or
\* all the transactions of a block
TransactionLists == {<<>>} \cup {<<tx>> : tx \in Txs} \cup {BlockTxs(h) : h \in Headers}

\* RelayProtocol::new(synchronizer, tx_pool) over a synchronizer that has
\* the peers registered; every peer has a session, or peer 0 has none; the
\* transaction pool, which the node shares with its other services, is empty
\* or holds the transactions of block 1; the chain store is empty
InitRelayOverPeers ==
    /\ peer_state = [p \in PeerIds |-> PeerStateNew(0, FALSE)]
    /\ h_headers_reported = [p \in PeerIds |-> FALSE]
    /\ h_probe_at = [p \in PeerIds |-> None]
    /\ best_known_headers = EmptyMap
    /\ chain_tip = 1
    /\ is_initial_block_download = TRUE
    /\ \E open \in {PeerIds, PeerIds \ {0}} : sessions = [p \in open |-> TRUE]
    /\ now = 0
    /\ pass = None
    /\ pass_done = FALSE
    /\ eviction_headers = {}
    /\ eviction_chain = {}
    /\ getheaders_sent = {}
    /\ getheaders_tip = EmptyMap
    /\ \E transactions \in {{}, Range(BlockTxs(1))} : InitRelayOver(transactions)
    /\ InitNoCall
    /\ InitDispatchIdle
    /\ InitLocksFree
    /\ panicked = FALSE

NextRelay ==
    \/ \E t \in RelayThreads, p \in PeerIds, tx \in Txs : ReceiveTransaction(t, p, tx)
    \/ \E t \in RelayThreads, p \in PeerIds, h \in Headers : ReceiveBlock(t, p, h)
    \/ \E t \in RelayThreads, p \in PeerIds, h \in Headers :
          ReceiveCompactBlock(t, p, h, 0)
    \/ \E t \in RelayThreads, p \in PeerIds, h \in Headers, ix \in IndexLists :
          ReceiveBlockTransactionsRequest(t, p, h, ix)
    \/ \E t \in RelayThreads, p \in PeerIds, h \in Headers, txs \in TransactionLists :
          ReceiveBlockTransactions(t, p, h, txs)
    \/ \E t \in RelayThreads : AddToMemoryPool(t)
    \/ \E t \in RelayThreads : ReconstructReadPool(t)
    \/ \E t \in RelayThreads : CallReconstruct(t)
    \/ \E t \in RelayThreads : SubmitBlock(t)
    \/ \E t \in RelayThreads : RequestMissing(t)
    \/ \E t \in RelayThreads : relay(t)
    \/ \E p \in PeerIds : disconnected(p)
    \/ \E p \in PeerIds : SessionClose(p)

SpecRelay == InitRelayOverPeers /\ [][NextRelay]_vars

\* ------------------------------------------------------------------------
\* One call of reconstruct_block on arbitrary arguments
\* ------------------------------------------------------------------------
CompactBlocks ==
    [header : Headers, nonce : Nonces,
     short_ids : SeqsUpTo(ShortIds, MaxShortIds),
     uncles : {<<>>, <<1>>}]

\* the supplied transactions, the main pool and the orphan pool: a list of
\* distinct transactions cut in three
CandidateLists ==
    UNION {UNION {{[transactions |-> SubSeq(v, 1, i),
                    pool_vertices |-> SubSeq(v, i + 1, j),
                    orphan_vertices |-> SubSeq(v, j + 1, Len(v))] :
                        j \in i .. Len(v)} :
                  i \in 0 .. Len(v)} :
           v \in {w \in SeqsUpTo(Txs, MaxTx) : IsInjective(w)}}

InitReconstruct ==
    /\ InitSync
    /\ InitRelay
    /\ InitDispatchIdle
    /\ InitLocksFree
    /\ panicked = FALSE
    /\ \E cb \in CompactBlocks, c \in CandidateLists :
          rb_args = Some([compact_block |-> cb,
                          transactions |-> c.transactions,
                          pool_vertices |-> c.pool_vertices,
                          orphan_vertices |-> c.orphan_vertices])
    /\ rb_result = None

CallReconstructBlock ==
    /\ IsSome(rb_args)
    /\ IsNone(rb_result)
    /\ LET a == Unwrap(rb_args) IN
       rb_result' = Some(reconstruct_block(a.compact_block, a.transactions,
                                           a.pool_vertices, a.orphan_vertices))
    /\ UNCHANGED <<syncVars, relayState, relayOut, dispatchVars, lockVars, rb_args, panicked>>

NextReconstruct == CallReconstructBlock

SpecReconstruct == InitReconstruct /\ [][NextReconstruct]_vars

\* ------------------------------------------------------------------------
\* SyncProtocol: the task dispatcher
\* ------------------------------------------------------------------------
\* the buffer of mpsc::channel(65535), scaled
QueueCapacity == 1
\* crate root, imported at protocol.rs:32-34; scaled
MAX_OUTBOUND_PEERS_TO_PROTECT_FROM_DISCONNECT == 1
\* at most MaxEvents items are accepted by the channel in a behaviour
MaxEvents == 2

SEND_GET_HEADERS_TOKEN == 1
BLOCK_FETCH_TOKEN == 2
\* the timers registered by initialize()
TimerTokens == {SEND_GET_HEADERS_TOKEN, BLOCK_FETCH_TOKEN}
\* what a packet handed to read() holds: one of the four sync messages, a
\* payload with none of them, or bytes that do not parse
PacketKinds == {"getheaders", "headers", "getdata", "block", "transaction", "malformed"}
\* the peers whose packets are handed to read()
ReadPeers == {0}

\* the Task variants
OnConnected(peer) == [kind |-> "OnConnected", peer |-> peer]
SendGetHeadersToAll == [kind |-> "SendGetHeadersToAll"]
FetchBlock == [kind |-> "FetchBlock"]
HandleGetheaders(peer) == [kind |-> "HandleGetheaders", peer |-> peer]
HandleHeaders(peer) == [kind |-> "HandleHeaders", peer |-> peer]
HandleGetdata(peer) == [kind |-> "HandleGetdata", peer |-> peer]
HandleBlock(peer) == [kind |-> "HandleBlock", peer |-> peer]

\* self.sender.clone(): a new Sender handle, which is not parked
SenderClone == [maybe_parked |-> FALSE]

\* Sender::try_send (futures 0.1 sync::mpsc): a parked sender is refused
\* with Full; any other sender's message is pushed, and the sender is parked
\* when the channel then holds more than its buffer
try_send(sender, q, task) ==
    IF sender.maybe_parked
    THEN [is_err |-> TRUE, queue |-> q, maybe_parked |-> TRUE]
    ELSE [is_err |-> FALSE, queue |-> Append(q, task),
          maybe_parked |-> Len(q) + 1 > QueueCapacity]

\* `let mut sender = self.sender.clone(); let ret = sender.try_send(task);`
\* an error is logged, nothing else
Enqueue(task) ==
    LET ret == try_send(SenderClone, queue, task) IN
    /\ queue' = ret.queue
    /\ enqueued' = IF ret.is_err THEN enqueued ELSE Append(enqueued, task)

NoEnqueue == UNCHANGED <<queue, enqueued>>

\* mutant: the gate needs both conditions
DispatchGate_Both == n_sync = 0 /\ ~is_initial_block_download

\* the condition of dispatch_getheaders and dispatch_on_connected
DispatchGate == n_sync = 0 \/ ~is_initial_block_download

\* what a transport call has read: Some(value), or None for what it did not read
NothingSeen == [no_peers |-> None, gate |-> None, full |-> None]

\* what the condition of dispatch_getheaders and dispatch_on_connected gives
GateSeen == Some(DispatchGate)

\* the thread runs no call; the threads are interchangeable, and a call is
\* made on the idle thread of least number
CallFree(t) ==
    /\ IsNone(transport_calls[t])
    /\ \A u \in TransportThreads : u < t => IsSome(transport_calls[u])

\* the calls in progress
CallsInFlight == Cardinality({t \in TransportThreads : IsSome(transport_calls[t])})

\* the transport calls a handler of SyncProtocol on thread t
CallOn(t) ==
    /\ CallFree(t)
    /\ Len(enqueued) + CallsInFlight < MaxEvents

\* the call goes on: it has not returned
CallContinues(t, c) ==
    /\ transport_calls' = [transport_calls EXCEPT ![t] = Some(c)]
    /\ event' = None

\* the call returns
CallReturns(t, e) ==
    /\ transport_calls' = [transport_calls EXCEPT ![t] = None]
    /\ event' = Some(e)

\* a transport call touches the channel and nothing else
TransportCallFrame ==
    /\ NoEvictionOutput
    /\ NoRelayOutput
    /\ UNCHANGED <<peer_state, best_known_headers, chain_tip, is_initial_block_download,
                   sessions, now, h_headers_reported, h_probe_at,
                   relayState, rbVars, lockVars,
                   n_sync, outbound_peers_with_protect, running, launched>>

\* a later step of a transport call
TransportStepFrame ==
    /\ TransportCallFrame
    /\ UNCHANGED <<arrived, h_disconnected, panicked>>

\* `let mut sender = self.sender.clone(); let ret = sender.try_send(task);` of
\* dispatch_getheaders and dispatch_on_connected, after their condition held,
\* and of process, after it matched the payload
TrySend(t) ==
    /\ ~panicked
    /\ \E c \in transport_calls[t] :
          /\ c.pc = "try_send"
          /\ Enqueue(c.task)
          /\ CallReturns(t, [c.event EXCEPT
                                !.seen.full = Some(Len(queue) >= QueueCapacity)])
    /\ TransportStepFrame

\* dispatch_getheaders: the condition on n_sync and is_initial_block_download.
\* The counter and the tip's age change independently of each other, so
\* reading them in one step gives what the two reads of the condition give.
dispatch_getheaders(t) ==
    /\ ~panicked
    /\ \E c \in transport_calls[t] :
          /\ c.pc = "dispatch_getheaders"
          /\ IF DispatchGate
             THEN CallContinues(t, [c EXCEPT !.pc = "try_send",
                                             !.event.seen.gate = GateSeen])
             ELSE CallReturns(t, [c.event EXCEPT !.seen.gate = GateSeen])
    /\ NoEnqueue
    /\ TransportStepFrame

\* dispatch_block_fetch: try_send(Task::FetchBlock) on a clone of the sender
dispatch_block_fetch(t) ==
    /\ ~panicked
    /\ \E c \in transport_calls[t] :
          /\ c.pc = "dispatch_block_fetch"
          /\ Enqueue(FetchBlock)
          /\ CallReturns(t, [c.event EXCEPT
                                !.seen.full = Some(Len(queue) >= QueueCapacity)])
    /\ TransportStepFrame

\* dispatch_on_connected: the condition on n_sync and is_initial_block_download
dispatch_on_connected(t, peer) ==
    LET e == [call |-> "connected", peer |-> peer,
              seen |-> [NothingSeen EXCEPT !.gate = GateSeen]]
    IN  IF DispatchGate
        THEN CallContinues(t, [event |-> e, pc |-> "try_send",
                               task |-> OnConnected(peer)])
        ELSE CallReturns(t, e)

\* SyncProtocol::process(nc, peer, payload), up to try_send: Some(the item the
\* payload is wrapped in), or None for a payload with none of the four messages
process(peer, kind) ==
    CASE kind = "getheaders" -> Some(HandleGetheaders(peer))
      [] kind = "headers" -> Some(HandleHeaders(peer))
      [] kind = "getdata" -> Some(HandleGetdata(peer))
      [] kind = "block" -> Some(HandleBlock(peer))
      [] OTHER -> None

\* SyncProtocol::connected(nc, peer), up to the condition of dispatch_on_connected
connected(t, peer) ==
    /\ ~panicked
    /\ CallOn(t)
    /\ dispatch_on_connected(t, peer)
    /\ NoEnqueue
    /\ h_disconnected' = h_disconnected \ {peer}
    /\ TransportCallFrame
    /\ UNCHANGED <<arrived, panicked>>

\* SyncProtocol::timeout(nc, token), up to the end of the `if` condition,
\* where the read guard of peers.state is dropped
timeout(t, token) ==
    /\ ~panicked
    /\ RegistryFree
    /\ CallOn(t)
    /\ LET e == [call |-> "timeout", token |-> token,
                 seen |-> [NothingSeen EXCEPT !.no_peers = Some(DOMAIN peer_state = {})]]
       IN  IF DOMAIN peer_state # {}
           THEN CASE token = SEND_GET_HEADERS_TOKEN ->
                        /\ CallContinues(t, [event |-> e, pc |-> "dispatch_getheaders",
                                             task |-> SendGetHeadersToAll])
                        /\ UNCHANGED panicked
                  [] token = BLOCK_FETCH_TOKEN ->
                        /\ CallContinues(t, [event |-> e, pc |-> "dispatch_block_fetch",
                                             task |-> FetchBlock])
                        /\ UNCHANGED panicked
                  [] OTHER -> \* unreachable!()
                        /\ panicked' = TRUE
                        /\ event' = None
                        /\ UNCHANGED transport_calls
           ELSE CallReturns(t, e) /\ UNCHANGED panicked
    /\ NoEnqueue
    /\ TransportCallFrame
    /\ UNCHANGED <<arrived, h_disconnected>>

\* SyncProtocol::read(nc, peer, packet_id, data), up to try_send: the packet
\* arrives when the transport makes the call; parse_from_bytes and the match
\* of process touch nothing shared, and try_send is a later step of the call
read(t, peer, kind) ==
    /\ ~panicked
    /\ CallOn(t)
    /\ LET e == [call |-> "read", peer |-> peer, kind |-> kind, seen |-> NothingSeen]
           task == IF kind = "malformed"
                   THEN None  \* parse_from_bytes fails: a warning
                   ELSE process(peer, kind)
       IN  IF IsSome(task)
           THEN /\ CallContinues(t, [event |-> e, pc |-> "try_send",
                                     task |-> Unwrap(task)])
                /\ arrived' = Append(arrived, Unwrap(task))
           ELSE /\ CallReturns(t, e)
                /\ UNCHANGED arrived
    /\ NoEnqueue
    /\ TransportCallFrame
    /\ UNCHANGED <<h_disconnected, panicked>>

\* a step of a spawned task or of the consumer touches no eviction or relay output
TaskFrame ==
    /\ NoEvictionOutput
    /\ NoRelayOutput
    /\ event' = None
    /\ UNCHANGED <<best_known_headers, chain_tip, is_initial_block_download,
                   sessions, now, relayState, rbVars, lockVars, arrived, enqueued,
                   transport_calls, h_disconnected>>

\* send_getheaders_to_peer(synchronizer, nc, peer, tip) for every peer of
\* `peers`: one GetHeaders payload each, built from the locator of `tip`.  It
\* takes no lock: while a pass of eviction is in progress the payloads join
\* the probes the pass has sent
send_getheaders_to_peer(peers, tip) ==
    IF IsSome(pass)
    THEN /\ getheaders_sent' = getheaders_sent \cup peers
         /\ getheaders_tip' =
               [p \in DOMAIN getheaders_tip \cup peers |->
                   IF p \in peers THEN tip ELSE getheaders_tip[p]]
    ELSE /\ getheaders_sent' = peers
         /\ getheaders_tip' = [p \in peers |-> tip]

\* a step of a spawned task that sends GetHeaders: no relay output; a pass of
\* eviction in progress keeps its `eviction` vector
TaskSendFrame ==
    /\ UNCHANGED pass
    /\ IF IsSome(pass)
       THEN UNCHANGED <<pass_done, eviction_headers, eviction_chain>>
       ELSE /\ pass_done' = FALSE
            /\ eviction_headers' = {}
            /\ eviction_chain' = {}
    /\ NoRelayOutput
    /\ event' = None
    /\ UNCHANGED <<best_known_headers, chain_tip, is_initial_block_download,
                   sessions, now, relayState, rbVars, lockVars, arrived, enqueued,
                   transport_calls, h_disconnected>>

\* receiver.for_each: the stream yields the items in the order they were sent
QueueTake(q) == [task |-> Head(q), rest |-> Tail(q)]

\* SyncProtocol::start: one turn of `receiver.for_each(|task| ... tokio::spawn ...)`
ConsumerTurn ==
    /\ ~panicked
    /\ queue # <<>>
    /\ LET took == QueueTake(queue) IN
       /\ queue' = took.rest
       /\ launched' = Append(launched, took.task)
       /\ running' = CASE took.task.kind = "OnConnected" ->
                            Insert(running, Len(launched) + 1,
                                   [peer |-> took.task.peer, pc |-> "tip_header",
                                    tip |-> None, protect_outbound |-> FALSE])
                       [] took.task.kind = "SendGetHeadersToAll" ->
                            Insert(running, Len(launched) + 1,
                                   [pc |-> "peer_ids", peer_ids |-> {}, tip |-> None])
                       [] OTHER -> running
    /\ TaskFrame
    /\ UNCHANGED <<peer_state, h_headers_reported, h_probe_at, n_sync,
                   outbound_peers_with_protect, panicked>>

\* on_connected: `let tip = synchronizer.tip_header();`
OnConnectedTip(i) ==
    /\ ~panicked
    /\ i \in DOMAIN running
    /\ running[i].pc = "tip_header"
    /\ running' = [running EXCEPT ![i].pc = "is_outbound",
                                  ![i].tip = Some(chain_tip)]
    /\ TaskFrame
    /\ UNCHANGED <<peer_state, h_headers_reported, h_probe_at, n_sync,
                   outbound_peers_with_protect, queue, launched, panicked>>

\* on_connected: `is_outbound(nc, peer).expect("session exist")`, the left
\* operand of `&&`: the right one is not evaluated for an inbound peer
OnConnectedIsOutbound(i) ==
    /\ ~panicked
    /\ i \in DOMAIN running
    /\ running[i].pc = "is_outbound"
    /\ LET outbound == is_outbound(sessions, running[i].peer) IN
       IF IsNone(outbound)
       THEN /\ panicked' = TRUE
            /\ running' = Remove(running, i)
       ELSE /\ running' = [running EXCEPT
                    ![i].pc = IF Unwrap(outbound) THEN "load" ELSE "fetch_add",
                    ![i].protect_outbound = FALSE]
            /\ UNCHANGED panicked
    /\ TaskFrame
    /\ UNCHANGED <<peer_state, h_headers_reported, h_probe_at, n_sync,
                   outbound_peers_with_protect, queue, launched>>

\* on_connected: `outbound_peers_with_protect.load(Ordering::Acquire) <
\* MAX_OUTBOUND_PEERS_TO_PROTECT_FROM_DISCONNECT`, the right operand of `&&`
OnConnectedLoad(i) ==
    /\ ~panicked
    /\ i \in DOMAIN running
    /\ running[i].pc = "load"
    /\ running' = [running EXCEPT
            ![i].pc = "fetch_add",
            ![i].protect_outbound =
                outbound_peers_with_protect < MAX_OUTBOUND_PEERS_TO_PROTECT_FROM_DISCONNECT]
    /\ TaskFrame
    /\ UNCHANGED <<peer_state, h_headers_reported, h_probe_at, n_sync,
                   outbound_peers_with_protect, queue, launched, panicked>>

\* on_connected: `if protect_outbound { outbound_peers_with_protect.fetch_add(1) }`
OnConnectedFetchAdd(i) ==
    /\ ~panicked
    /\ i \in DOMAIN running
    /\ running[i].pc = "fetch_add"
    /\ outbound_peers_with_protect' =
          IF running[i].protect_outbound
          THEN outbound_peers_with_protect + 1
          ELSE outbound_peers_with_protect
    /\ running' = [running EXCEPT ![i].pc = "peers_on_connected"]
    /\ TaskFrame
    /\ UNCHANGED <<peer_state, h_headers_reported, h_probe_at, n_sync,
                   queue, launched, panicked>>

\* on_connected: `peers.on_connected(&peer, timeout, protect_outbound);`
OnConnectedRegister(i, deadline) ==
    /\ ~panicked
    /\ RegistryFree
    /\ i \in DOMAIN running
    /\ running[i].pc = "peers_on_connected"
    /\ LET peer == running[i].peer IN
       IF peer \in DOMAIN peer_state
       THEN UNCHANGED <<peer_state, h_headers_reported, h_probe_at>>
       ELSE /\ peer_state' = Insert(peer_state, peer,
                                    PeerStateNew(deadline, running[i].protect_outbound))
            /\ h_headers_reported' = Insert(h_headers_reported, peer, FALSE)
            /\ h_probe_at' = Insert(h_probe_at, peer, None)
    /\ running' = [running EXCEPT ![i].pc = "n_sync"]
    /\ TaskFrame
    /\ UNCHANGED <<n_sync, outbound_peers_with_protect, queue, launched, panicked>>

\* on_connected: `synchronizer.n_sync.fetch_add(1, Ordering::Release);`
OnConnectedCount(i) ==
    /\ ~panicked
    /\ i \in DOMAIN running
    /\ running[i].pc = "n_sync"
    /\ n_sync' = n_sync + 1
    /\ running' = [running EXCEPT ![i].pc = "send_getheaders_to_peer"]
    /\ TaskFrame
    /\ UNCHANGED <<peer_state, h_headers_reported, h_probe_at,
                   outbound_peers_with_protect, queue, launched, panicked>>

\* on_connected: `Self::send_getheaders_to_peer(synchronizer, nc, peer, &tip);`
\* with the tip read when the task began
OnConnectedSend(i) ==
    /\ ~panicked
    /\ i \in DOMAIN running
    /\ running[i].pc = "send_getheaders_to_peer"
    /\ send_getheaders_to_peer({running[i].peer}, Unwrap(running[i].tip))
    /\ running' = Remove(running, i)
    /\ TaskSendFrame
    /\ UNCHANGED <<peer_state, h_headers_reported, h_probe_at, n_sync,
                   outbound_peers_with_protect, queue, launched, panicked>>

\* send_getheaders_to_all: `let peer_ids: Vec<PeerId> = synchronizer.peers
\* .state.read().keys().cloned().collect();`
SendGetHeadersToAllKeys(i) ==
    /\ ~panicked
    /\ RegistryFree
    /\ i \in DOMAIN running
    /\ running[i].pc = "peer_ids"
    /\ running' = [running EXCEPT ![i].pc = "tip_header_of_all",
                                  ![i].peer_ids = DOMAIN peer_state]
    /\ TaskFrame
    /\ UNCHANGED <<peer_state, h_headers_reported, h_probe_at, n_sync,
                   outbound_peers_with_protect, queue, launched, panicked>>

\* send_getheaders_to_all: `let tip = synchronizer.tip_header();`
SendGetHeadersToAllTip(i) ==
    /\ ~panicked
    /\ i \in DOMAIN running
    /\ running[i].pc = "tip_header_of_all"
    /\ running' = [running EXCEPT ![i].pc = "send_to_all",
                                  ![i].tip = Some(chain_tip)]
    /\ TaskFrame
    /\ UNCHANGED <<peer_state, h_headers_reported, h_probe_at, n_sync,
                   outbound_peers_with_protect, queue, launched, panicked>>

\* send_getheaders_to_all: `for peer in peer_ids { send_getheaders_to_peer(..,
\* peer, &tip) }`.  The loop reads nothing shared: its sends go to the peers
\* and carry the tip the task has read, whatever the registry holds by now
SendGetHeadersToAllSend(i) ==
    /\ ~panicked
    /\ i \in DOMAIN running
    /\ running[i].pc = "send_to_all"
    /\ send_getheaders_to_peer(running[i].peer_ids, Unwrap(running[i].tip))
    /\ running' = Remove(running, i)
    /\ TaskSendFrame
    /\ UNCHANGED <<peer_state, h_headers_reported, h_probe_at, n_sync,
                   outbound_peers_with_protect, queue, launched, panicked>>

\* send_getheaders_to_all(synchronizer, nc): one step of the task
send_getheaders_to_all(i) ==
    \/ SendGetHeadersToAllKeys(i)
    \/ SendGetHeadersToAllTip(i)
    \/ SendGetHeadersToAllSend(i)

\* the registries the dispatcher starts from: the empty one of
\* SyncProtocol::new, and the one left by the on_connected task of peer 1
InitRegistries == {{}, {1}}

\* after SyncProtocol::new, or after one OnConnected item has since run to its
\* end (on_connected, protocol.rs:189-210: the peer is registered, protected
\* when it is outbound, and both counters are raised); every peer holds a
\* session: all outbound, or peer 0 outbound and the others inbound; the
\* channel is empty and nothing runs
InitDispatch ==
    /\ sessions \in {[p \in PeerIds |-> TRUE], [p \in PeerIds |-> p = 0]}
    /\ \E registered \in InitRegistries :
          /\ peer_state = [p \in registered |->
                             PeerStateNew(MaxNow - 2, Unwrap(is_outbound(sessions, p)))]
          /\ h_headers_reported = [p \in registered |-> FALSE]
          /\ h_probe_at = [p \in registered |-> None]
          /\ n_sync = Cardinality(registered)
          /\ outbound_peers_with_protect =
                Cardinality({p \in registered : Unwrap(is_outbound(sessions, p))})
    /\ best_known_headers = EmptyMap
    /\ chain_tip = 1
    /\ is_initial_block_download \in BOOLEAN
    /\ now = 0
    /\ pass = None
    /\ pass_done = FALSE
    /\ eviction_headers = {}
    /\ eviction_chain = {}
    /\ getheaders_sent = {}
    /\ getheaders_tip = EmptyMap
    /\ InitRelay
    /\ InitNoCall
    /\ transport_calls = [t \in TransportThreads |-> None]
    /\ queue = <<>>
    /\ running = EmptyMap
    /\ event = None
    /\ arrived = <<>>
    /\ enqueued = <<>>
    /\ launched = <<>>
    /\ h_disconnected = {}
    /\ InitLocksFree
    /\ panicked = FALSE

NextDispatch ==
    \/ \E t \in TransportThreads, p \in PeerIds : connected(t, p)
    \/ \E t \in TransportThreads, token \in TimerTokens : timeout(t, token)
    \/ \E t \in TransportThreads, p \in ReadPeers, kind \in PacketKinds : read(t, p, kind)
    \/ \E t \in TransportThreads : dispatch_getheaders(t)
    \/ \E t \in TransportThreads : dispatch_block_fetch(t)
    \/ \E t \in TransportThreads : TrySend(t)
    \/ \E p \in PeerIds : disconnected(p)
    \/ \E p \in PeerIds : SessionClose(p)
    \/ ToggleInitialBlockDownload
    \/ TipAdvance
    \/ ConsumerTurn
    \/ \E i \in 1 .. MaxEvents : OnConnectedTip(i)
    \/ \E i \in 1 .. MaxEvents : OnConnectedIsOutbound(i)
    \/ \E i \in 1 .. MaxEvents : OnConnectedLoad(i)
    \/ \E i \in 1 .. MaxEvents : OnConnectedFetchAdd(i)
    \/ \E i \in 1 .. MaxEvents, d \in HeadersSyncTimeoutsAtRest : OnConnectedRegister(i, d)
    \/ \E i \in 1 .. MaxEvents : OnConnectedCount(i)
    \/ \E i \in 1 .. MaxEvents : OnConnectedSend(i)
    \/ \E i \in 1 .. MaxEvents : send_getheaders_to_all(i)

SpecDispatch == InitDispatch /\ [][NextDispatch]_vars

\* ------------------------------------------------------------------------
\* The locks the handlers take, in program order
\* ------------------------------------------------------------------------
\* RwLock::read / RwLock::write / Mutex::lock, and the drop of the guard
Acquire(lock, mode) == [op |-> "acquire", lock |-> lock, mode |-> mode]
Release(lock) == [op |-> "release", lock |-> lock, mode |-> "none"]

\* `{ synchronizer.peers.state.read().keys().cloned().collect() }`, and the
\* condition of timeout(): the guard is a temporary of the statement
StateReadLocks == <<Acquire("peers.state", "read"), Release("peers.state")>>

\* `{ synchronizer.chain.tip_header().read().clone() }`, `reads` times
TipReadLocks(reads) ==
    [j \in 1 .. 2 * reads |->
        IF j % 2 = 1 THEN Acquire("chain.tip_header", "read")
        ELSE Release("chain.tip_header")]

\* Synchronizer::tip_header, is_initial_block_download, get_locator and
\* get_block read the chain provider, which is shared and thread-safe: a read
\* of the chain's lock whose guard is dropped before the call returns
SynchronizerReadLocks == TipReadLocks(1)

\* Synchronizer::process_new_block hands the block to the chain provider for
\* validation and insertion: the chain's lock is written
ProcessNewBlockLocks ==
    <<Acquire("chain.tip_header", "write"), Release("chain.tip_header")>>

\* TransactionPool::add_to_memory_pool admits the transaction to the pool
AddToMemoryPoolLocks ==
    <<Acquire("tx_pool.pool", "write"), Release("tx_pool.pool")>>

\* Peers::on_connected inserts the state of the peer
PeersOnConnectedLocks ==
    <<Acquire("peers.state", "write"), Release("peers.state")>>

\* Peers::disconnected removes the state and the best-known-header entry
PeersDisconnectedLocks ==
    <<Acquire("peers.state", "write"),
      Acquire("peers.best_known_headers", "write"),
      Release("peers.best_known_headers"),
      Release("peers.state")>>

\* Synchronizer::get_blocks_to_fetch: the in-flight set of the registry is
\* updated with hashes on the peer's best-known-header path that the chain
\* does not hold yet
GetBlocksToFetchLocks ==
    <<Acquire("peers.state", "write"),
      Acquire("peers.best_known_headers", "read")>>
    \o SynchronizerReadLocks
    \o <<Release("peers.best_known_headers"),
         Release("peers.state")>>

\* the iterations of the loop of eviction that reach the chain_sync rule: each
\* of the `tips` peers reads the tip, and `probes` of them are sent GetHeaders,
\* for which send_getheaders_to_peer calls get_locator
RECURSIVE ChainSyncLocks(_, _)
ChainSyncLocks(tips, probes) ==
    IF tips = 0 THEN <<>>
    ELSE TipReadLocks(1)
         \o (IF probes > 0 THEN SynchronizerReadLocks ELSE <<>>)
         \o ChainSyncLocks(tips - 1, IF probes > 0 THEN probes - 1 ELSE 0)

\* mutant: eviction takes best_known_headers before state
EvictionLocks_HeadersFirst(tips, probes) ==
    <<Acquire("peers.best_known_headers", "read"),
      Acquire("peers.state", "write")>>
    \o SynchronizerReadLocks
    \o ChainSyncLocks(tips, probes)
    \o <<Release("peers.state"),
         Release("peers.best_known_headers")>>

\* eviction: peer_state and best_known_headers are held to the end of the
\* function, over is_initial_block_download() and over the loop; the tip is
\* read inside the loop, by each peer that is outbound and unprotected and
\* that the headers-sync rule does not take
EvictionLocks(tips, probes) ==
    <<Acquire("peers.state", "write"),
      Acquire("peers.best_known_headers", "read")>>
    \o SynchronizerReadLocks
    \o ChainSyncLocks(tips, probes)
    \o <<Release("peers.best_known_headers"),
         Release("peers.state")>>

\* start(): the receiver is taken out of its mutex, the guard is a temporary
StartLocks == <<Acquire("receiver", "lock"), Release("receiver")>>

\* timeout(): the guard of the `if` condition is dropped before the branch
\* runs; the gate of dispatch_getheaders asks the synchronizer whether the
\* node is in initial block download when a sync is in progress
TimeoutLocks(gate) ==
    StateReadLocks \o (IF gate THEN SynchronizerReadLocks ELSE <<>>)

\* the OnConnected task: tip_header(), Peers::on_connected, then the
\* get_locator of send_getheaders_to_peer
OnConnectedLocks ==
    SynchronizerReadLocks \o PeersOnConnectedLocks \o SynchronizerReadLocks

\* the SendGetHeadersToAll task: the keys, the tip, then the get_locator of
\* send_getheaders_to_peer for each key; a further key repeats the
\* acquisitions of the first, with no guard held in between
SendGetHeadersToAllLocks ==
    StateReadLocks \o SynchronizerReadLocks \o SynchronizerReadLocks

\* the FetchBlock task: the keys, then get_blocks_to_fetch for each key; a
\* further key repeats the acquisitions of the first, with no guard held in
\* between
FindBlocksToFetchLocks == StateReadLocks \o GetBlocksToFetchLocks

\* GetHeadersProcess: the state of the peer, then the headers of the chain;
\* GetDataProcess: the state of the peer, then a block of the chain for each
\* inventory item
HandleGetLocks == StateReadLocks \o SynchronizerReadLocks

\* HeadersProcess: the headers are accepted into the header chain, the
\* best-known header of the peer is updated and its headers_sync_timeout is
\* cleared
HandleHeadersLocks ==
    <<Acquire("peers.state", "write"),
      Acquire("peers.best_known_headers", "write")>>
    \o ProcessNewBlockLocks
    \o <<Release("peers.best_known_headers"),
         Release("peers.state")>>

\* process(): `!received.lock().insert(hash)` is false on the first receipt
\* and the handler ends there
ReceivedTransactionsLocks ==
    <<Acquire("received_transactions", "lock"), Release("received_transactions")>>

ReceivedBlocksLocks ==
    <<Acquire("received_blocks", "lock"), Release("received_blocks")>>

\* BlockProcess: the state of the peer, the block is handed to the chain
\* provider and then entered into the relay's set of received blocks
HandleBlockLocks ==
    StateReadLocks \o ProcessNewBlockLocks \o ReceivedBlocksLocks

\* process(), block transactions of a hash without pending entry
PendingCompactBlocksLocks ==
    <<Acquire("pending_compact_blocks", "lock"), Release("pending_compact_blocks")>>

\* reconstruct_block: each pool guard is a temporary of its statement
ReconstructBlockLocks ==
    <<Acquire("tx_pool.pool", "read"), Release("tx_pool.pool"),
      Acquire("tx_pool.orphan", "read"), Release("tx_pool.orphan")>>

\* process(), transaction received before: the guard of the `if` condition is
\* dropped before the body runs; add_to_memory_pool, then relay() reads the
\* registry
ProcessTransactionLocks ==
    ReceivedTransactionsLocks \o AddToMemoryPoolLocks \o StateReadLocks

\* process(), block received before: process_new_block, then relay()
ProcessBlockLocks ==
    ReceivedBlocksLocks \o ProcessNewBlockLocks \o StateReadLocks

\* process(), compact block received before and rebuilt in full:
\* reconstruct_block, process_new_block, then relay()
ProcessCompactBlockLocks ==
    ReceivedBlocksLocks
    \o ReconstructBlockLocks
    \o ProcessNewBlockLocks
    \o StateReadLocks

\* process(), compact block received before, with missing indexes:
\* reconstruct_block, then the compact block is stored
ProcessCompactBlockMissingLocks ==
    ReceivedBlocksLocks \o ReconstructBlockLocks \o PendingCompactBlocksLocks

\* process(), block transactions that do not complete the block: the guard
\* taken in the `if let` scrutinee lives to the end of the `if let`, over the
\* call of reconstruct_block
ProcessBlockTransactionsMissingLocks ==
    <<Acquire("pending_compact_blocks", "lock")>>
    \o ReconstructBlockLocks
    \o <<Release("pending_compact_blocks")>>

\* process(), block transactions that complete the block: the guard lives
\* over reconstruct_block and over process_new_block
ProcessBlockTransactionsLocks ==
    <<Acquire("pending_compact_blocks", "lock")>>
    \o ReconstructBlockLocks
    \o ProcessNewBlockLocks
    \o <<Release("pending_compact_blocks")>>

\* the paths of the handlers, the tasks and the relay; a pass of eviction has
\* one path for each number of peers that reach the chain_sync rule, and in
\* the longest one of them is probed; connected() asks the synchronizer
\* whether the node is in initial block download, and the block transactions
\* request looks the block up with get_block
LockPrograms ==
    [start |-> StartLocks,
     connected |-> SynchronizerReadLocks,
     disconnected |-> PeersDisconnectedLocks,
     timeout |-> TimeoutLocks(FALSE),
     timeout_getheaders |-> TimeoutLocks(TRUE),
     eviction_0 |-> EvictionLocks(0, 0),
     eviction_1 |-> EvictionLocks(1, 0),
     eviction_2 |-> EvictionLocks(Cardinality(PeerIds), 1),
     on_connected |-> OnConnectedLocks,
     send_getheaders_to_all |-> SendGetHeadersToAllLocks,
     find_blocks_to_fetch |-> FindBlocksToFetchLocks,
     handle_getheaders |-> HandleGetLocks,
     handle_headers |-> HandleHeadersLocks,
     handle_getdata |-> HandleGetLocks,
     handle_block |-> HandleBlockLocks,
     process_transaction_first |-> ReceivedTransactionsLocks,
     process_transaction |-> ProcessTransactionLocks,
     process_block_first |-> ReceivedBlocksLocks,
     process_block |-> ProcessBlockLocks,
     process_compact_block_first |-> ReceivedBlocksLocks,
     process_compact_block |-> ProcessCompactBlockLocks,
     process_compact_block_missing |-> ProcessCompactBlockMissingLocks,
     process_block_transactions_request |-> SynchronizerReadLocks,
     process_block_transactions_unknown |-> PendingCompactBlocksLocks,
     process_block_transactions_missing |-> ProcessBlockTransactionsMissingLocks,
     process_block_transactions |-> ProcessBlockTransactionsLocks]

\* the guards a handler holds when it is at position pc of its program
HeldAt(prog, pc) ==
    {[lock |-> prog[j].lock, mode |-> prog[j].mode] :
        j \in {k \in 1 .. (pc - 1) :
                 /\ prog[k].op = "acquire"
                 /\ ~\E r \in (k + 1) .. (pc - 1) :
                        prog[r].op = "release" /\ prog[r].lock = prog[k].lock}}

Held(t) ==
    IF lock_task[t].path = "idle" THEN {}
    ELSE HeldAt(LockPrograms[lock_task[t].path], lock_task[t].pc)

\* the next operation of a running handler
NextOp(t) == LockPrograms[lock_task[t].path][lock_task[t].pc]

\* a read guard is granted unless another thread writes; a write guard or a
\* mutex guard is granted when no other thread holds the lock
Available(lock, mode, t) ==
    \A u \in LockTasks \ {t} :
       \A h \in Held(u) :
          h.lock = lock => (mode = "read" /\ h.mode = "read")

LockFrame ==
    UNCHANGED <<syncVars, relayState, relayOut, rbVars, dispatchVars, panicked>>

\* a thread starts a handler
LockTaskStart(t, path) ==
    /\ lock_task[t].path = "idle"
    /\ lock_task' = [lock_task EXCEPT ![t] = [path |-> path, pc |-> 1]]
    /\ LockFrame

\* the handler is past its last operation when its position leaves the program
Advance(t) ==
    IF lock_task[t].pc = Len(LockPrograms[lock_task[t].path])
    THEN [lock_task EXCEPT ![t] = [path |-> "idle", pc |-> 1]]
    ELSE [lock_task EXCEPT ![t].pc = @ + 1]

\* the handler gets the guard it asks for, or waits
LockAcquire(t) ==
    /\ lock_task[t].path # "idle"
    /\ NextOp(t).op = "acquire"
    /\ Available(NextOp(t).lock, NextOp(t).mode, t)
    /\ lock_task' = Advance(t)
    /\ LockFrame

\* the handler drops a guard
LockRelease(t) ==
    /\ lock_task[t].path # "idle"
    /\ NextOp(t).op = "release"
    /\ lock_task' = Advance(t)
    /\ LockFrame

NextLocks ==
    \/ \E t \in LockTasks, path \in DOMAIN LockPrograms : LockTaskStart(t, path)
    \/ \E t \in LockTasks : LockAcquire(t)
    \/ \E t \in LockTasks : LockRelease(t)

\* no lock program depends on whether the node is in initial block download
InitLocks == Init /\ is_initial_block_download

SpecLocks == InitLocks /\ [][NextLocks]_vars

\* the `eviction` vector: the peers the loop has pushed
PassEviction == eviction_headers \cup eviction_chain

\* report_peer(peer, Severity::Timeout) calls of the pass that has just ended
reported == IF pass_done THEN PassEviction ELSE {}

\* ------------------------------------------------------------------------
\* Vocabulary for the claims about eviction
\* ------------------------------------------------------------------------
\* the step begins the iteration of the loop for p: it reads now_ms() and
\* applies the headers_sync_timeout rule
HeadersVisits(p) ==
    /\ IsSome(pass)
    /\ IsNone(PassCur)
    /\ p \in Unwrap(pass).todo
    /\ IsSome(pass')
    /\ \/ p \notin Unwrap(pass').todo
       \/ \E c \in Unwrap(pass').cur : c.peer = p

\* the step is the call of is_outbound in the iteration for p
SessionVisits(p) ==
    /\ \E c \in PassCur : c.peer = p /\ IsNone(c.outbound)
    /\ pass' # pass

\* the step is the chain_sync rule of the iteration for p: it reads the tip
ChainVisits(p) ==
    /\ \E c \in PassCur : c.peer = p /\ IsSome(c.outbound)
    /\ pass' # pass

\* the now_ms() the iteration in progress read when it began
VisitNow == Unwrap(PassCur).now

\* the iteration goes on to the chain_sync rule exactly for a peer that is
\* unprotected and outbound when is_outbound is called
ReachesChainSync(p) ==
    SessionVisits(p) =>
        ((~peer_state[p].chain_sync.protect /\ is_outbound(sessions, p) = Some(TRUE))
            <=> (IsSome(pass') /\ \E c \in Unwrap(pass').cur :
                                     c.peer = p /\ c.outbound = Some(TRUE)))

\* a pass keeps what its loop pushed and its report loop reports all of it
EvictionReportsVector ==
    (IsSome(pass) /\ ~panicked') =>
        /\ PassEviction \subseteq PassEviction'
        /\ IsNone(pass') => reported' = PassEviction

\* ------------------------------------------------------------------------
\* Type invariant
\* ------------------------------------------------------------------------
TypeOK ==
    /\ DOMAIN peer_state \subseteq PeerIds
    /\ DOMAIN best_known_headers \subseteq DOMAIN peer_state
    /\ DOMAIN sessions \subseteq PeerIds
    /\ now \in 0 .. MaxNow
    /\ chain_tip \in Difficulties
    /\ PassEviction \subseteq DOMAIN peer_state
    /\ IsSome(pass) => Unwrap(pass).todo \subseteq DOMAIN peer_state
    /\ \A c \in PassCur :
          /\ c.peer \in Unwrap(pass).todo
          /\ c.now \in 0 .. now
          /\ c.outbound \in {None, Some(TRUE)}
    /\ getheaders_sent \subseteq PeerIds

\* ------------------------------------------------------------------------
\* C1. In one eviction pass every peer whose headers_sync_timeout is Some(d)
\* with now > d, during initial-block-download and with disconnect unset, gets
\* disconnect = true and is reported in that pass, protected or not; a peer
\* with now <= d is not reported by the headers_sync_timeout rule in that pass.
\* now is the now_ms() the pass reads when its loop comes to the peer, and
\* initial-block-download is what it read before its loop; no other step of
\* the pass pushes a peer by this rule, and what the loop pushes is reported
\* when the loop has ended.
\* ------------------------------------------------------------------------
C1_HeadersSyncTimeoutEvicts ==
    [][/\ \A p \in DOMAIN peer_state :
            /\ HeadersVisits(p) =>
                  LET st == peer_state[p] IN
                  IsSome(st.headers_sync_timeout) =>
                      /\ (now > Unwrap(st.headers_sync_timeout)
                              /\ PassIBD /\ ~st.disconnect)
                          => (peer_state'[p].disconnect /\ p \in eviction_headers')
                      /\ (now <= Unwrap(st.headers_sync_timeout))
                          => p \notin eviction_headers'
            /\ (p \in eviction_headers' /\ p \notin eviction_headers)
                  => HeadersVisits(p)
       /\ EvictionReportsVector
    ]_vars

\* a pass reported a protected peer by the headers rule and spared a peer
\* with the same deadline, which had not passed when the loop came to it
C1_Witness ==
    \E p, q \in DOMAIN peer_state :
        /\ p \in eviction_headers
        /\ p \in reported
        /\ peer_state[p].chain_sync.protect
        /\ peer_state[p].disconnect
        /\ q \notin reported
        /\ peer_state[q].headers_sync_timeout = peer_state[p].headers_sync_timeout
        /\ now > Unwrap(peer_state[q].headers_sync_timeout)
        /\ ~peer_state[q].disconnect

\* ------------------------------------------------------------------------
\* C2. Between registration and removal, a peer whose headers-sync deadline
\* has passed during initial-block-download is reported exactly once: in the
\* first such pass, and in no later pass.
\* ------------------------------------------------------------------------
C2_HeadersTimeoutReportedOnce ==
    [][\A p \in DOMAIN peer_state :
          /\ HeadersVisits(p) =>
                (HeadersSyncExpired(peer_state[p], now, PassIBD)
                    => p \in PassEviction')
          /\ (IsSome(pass) /\ h_headers_reported[p]) => p \notin PassEviction'
    ]_vars

\* ------------------------------------------------------------------------
\* C3. Chain-sync eviction is two-phase: a peer is marked disconnect and
\* reported by the chain_sync rule only if it is unprotected and outbound, an
\* earlier pass sent it the GetHeaders probe (sent_getheaders = true) and now
\* is greater than the timeout set at that probe (probe time +
\* EVICTION_TEST_RESPONSE_TIME); the pass that sends the probe does not
\* disconnect or report the peer.  Outbound is what is_outbound gave the
\* pass, now and the probe time are the now_ms() the two passes read when
\* their loops came to the peer, and the chain_sync rule of the iteration is
\* the only step that marks, pushes or probes.
\* ------------------------------------------------------------------------
C3_ChainSyncTwoPhase ==
    [][\A p \in DOMAIN peer_state :
          /\ ReachesChainSync(p)
          /\ ((p \in eviction_chain' /\ p \notin eviction_chain)
               \/ (p \in getheaders_sent' /\ p \notin getheaders_sent))
                => ChainVisits(p)
          /\ ChainVisits(p) =>
                /\ p \in eviction_chain' =>
                    /\ ~peer_state[p].chain_sync.protect
                    /\ Unwrap(PassCur).outbound = Some(TRUE)
                    /\ peer_state[p].chain_sync.sent_getheaders
                    /\ IsSome(h_probe_at[p])
                    /\ VisitNow > Unwrap(h_probe_at[p]) + EVICTION_TEST_RESPONSE_TIME
                    /\ peer_state'[p].disconnect
                    /\ p \notin getheaders_sent'
                /\ p \in getheaders_sent' =>
                    /\ p \notin PassEviction'
                    /\ peer_state'[p].disconnect = peer_state[p].disconnect
                    /\ peer_state'[p].chain_sync.sent_getheaders
                /\ p \notin eviction_chain' =>
                    peer_state'[p].disconnect = peer_state[p].disconnect
    ]_vars

\* a pass evicted a peer by the chain_sync rule after its probe timed out
C3_Witness ==
    \E p \in DOMAIN peer_state :
        /\ p \in eviction_chain
        /\ p \in reported
        /\ peer_state[p].disconnect
        /\ IsSome(h_probe_at[p])
        /\ now > Unwrap(h_probe_at[p]) + EVICTION_TEST_RESPONSE_TIME

\* ------------------------------------------------------------------------
\* C4. A protected peer's chain_sync stays in S0 (timeout = 0, work_header =
\* None, sent_getheaders = false) after any sequence of passes, whatever its
\* best-known header; no pass probes it or evicts it by the chain_sync rule.
\* ------------------------------------------------------------------------
C4_ProtectedStaysS0 ==
    \A p \in DOMAIN peer_state :
        peer_state[p].chain_sync.protect =>
            /\ peer_state[p].chain_sync.timeout = 0
            /\ peer_state[p].chain_sync.work_header = None
            /\ ~peer_state[p].chain_sync.sent_getheaders
            /\ p \notin getheaders_sent
            /\ p \notin eviction_chain

\* a protected outbound peer behind our tip sits in S0 in the very pass that
\* evicts an unprotected peer by the chain_sync rule
C4_Witness ==
    \E p, q \in DOMAIN peer_state :
        /\ peer_state[p].chain_sync.protect
        /\ is_outbound(sessions, p) = Some(TRUE)
        /\ p \in DOMAIN best_known_headers
        /\ best_known_headers[p] < chain_tip
        /\ ~peer_state[p].disconnect
        /\ q \in eviction_chain
\* ------------------------------------------------------------------------
\* Vocabulary for the claims about reconstruct_block
\* ------------------------------------------------------------------------
\* the candidate transactions of the recorded call
RbCandidates ==
    LET a == Unwrap(rb_args) IN
    Range(a.transactions) \cup Range(a.pool_vertices) \cup Range(a.orphan_vertices)

\* the short id of a transaction under the keys of the recorded compact block
RbShortId(tx) ==
    LET cb == Unwrap(rb_args).compact_block
        keys == short_transaction_id_keys(cb.nonce, cb.header)
    IN  short_transaction_id(keys[1], keys[2], tx)

RbShortIds == Unwrap(rb_args).compact_block.short_ids

\* position i (from 1) carries a short id that some candidate has
RbResolves(i) == \E tx \in RbCandidates : RbShortId(tx) = RbShortIds[i]

\* position i (from 1) is not found by the walk: no candidate has its short
\* id, or an earlier position used the only entry of that short id
RbNotFound(i) ==
    \/ ~RbResolves(i)
    \/ \E j \in 1 .. (i - 1) : RbShortIds[j] = RbShortIds[i]

\* the ascending list of the elements of a set of numbers
Ascending(S) ==
    CHOOSE v \in [1 .. Cardinality(S) -> S] :
        \A i, j \in 1 .. Cardinality(S) : i < j => v[i] < v[j]

\* the block the call returned has the compact block's header and uncles and
\* at every position a candidate with that position's short id
RbBlockMatches ==
    LET r == Unwrap(rb_result)
        cb == Unwrap(rb_args).compact_block
    IN  /\ ~r.panic
        /\ IsSome(r.block)
        /\ r.missing_indexes = None
        /\ Unwrap(r.block).header = cb.header
        /\ Unwrap(r.block).uncles = cb.uncles
        /\ Len(Unwrap(r.block).transactions) = Len(cb.short_ids)
        /\ \A i \in 1 .. Len(cb.short_ids) :
              /\ Unwrap(r.block).transactions[i] \in RbCandidates
              /\ RbShortId(Unwrap(r.block).transactions[i]) = cb.short_ids[i]

\* ------------------------------------------------------------------------
\* C6. When at least one short id has no matching candidate, reconstruct_block
\* returns (None, Some(missing)) with missing exactly the ascending list of
\* the positions not found, for every arrangement of found and missing
\* positions, and it returns without failing.
\* ------------------------------------------------------------------------
C6_MissingIndexesExact ==
    (IsSome(rb_result) /\ \E i \in 1 .. Len(RbShortIds) : ~RbResolves(i)) =>
        LET r == Unwrap(rb_result) IN
        /\ ~r.panic
        /\ r.block = None
        /\ r.missing_indexes =
              Some(Ascending({i - 1 : i \in {k \in 1 .. Len(RbShortIds) : RbNotFound(k)}}))

\* ------------------------------------------------------------------------
\* C7 (as claimed). For every compact block whose short ids all resolve in
\* the candidates, reconstruct_block returns (Some(block), None); the block
\* has the compact block's header and uncles, as many transactions as short
\* ids, and at position i the candidate whose short id is short_ids[i].
\* ------------------------------------------------------------------------
C7_AllResolveGivesBlock ==
    (IsSome(rb_result) /\ \A i \in 1 .. Len(RbShortIds) : RbResolves(i)) =>
        RbBlockMatches

\* the candidates in the order reconstruct_block collects them: the supplied
\* transactions, the main pool, the orphan pool
RbCandidateList ==
    LET a == Unwrap(rb_args) IN
    a.transactions \o a.pool_vertices \o a.orphan_vertices

\* the last candidate of that order with the short id of position i (from 1)
RbLastCandidate(i) ==
    LET txs == RbCandidateList
        k == CHOOSE j \in 1 .. Len(txs) :
                /\ RbShortId(txs[j]) = RbShortIds[i]
                /\ \A m \in (j + 1) .. Len(txs) : RbShortId(txs[m]) # RbShortIds[i]
    IN  txs[k]

\* ------------------------------------------------------------------------
\* C7 (amended). For compact blocks whose short ids all resolve: when the
\* short ids are pairwise distinct the call returns (Some(block), None), the
\* block as claimed, with at position i the last candidate, in the order
\* supplied transactions, main pool, orphan pool, that has the short id
\* short_ids[i]; when a short id occurs more than once no block is returned:
\* the call returns (None, Some(missing)) or fails.
\* ------------------------------------------------------------------------
C7_DistinctResolveGivesBlock ==
    (IsSome(rb_result) /\ \A i \in 1 .. Len(RbShortIds) : RbResolves(i)) =>
        IF IsInjective(RbShortIds)
        THEN /\ RbBlockMatches
             /\ \A i \in 1 .. Len(RbShortIds) :
                   Unwrap(Unwrap(rb_result).block).transactions[i] = RbLastCandidate(i)
        ELSE \/ Unwrap(rb_result).panic
             \/ /\ Unwrap(rb_result).block = None
                /\ IsSome(Unwrap(rb_result).missing_indexes)

\* a block of two transactions was rebuilt from supplied and pooled
\* transactions, one of which shares its short id with another candidate
C7_Witness ==
    /\ IsSome(rb_result)
    /\ IsSome(Unwrap(rb_result).block)
    /\ Len(RbShortIds) >= 2
    /\ Unwrap(rb_args).transactions # <<>>
    /\ Unwrap(rb_args).pool_vertices # <<>>
    /\ \E t1, t2 \in RbCandidates : t1 # t2 /\ RbShortId(t1) = RbShortId(t2)
\* ------------------------------------------------------------------------
\* Vocabulary for the claims about RelayProtocol::process
\* ------------------------------------------------------------------------
\* the short id of tx under the keys of compact block cb
ShortIdIn(cb, tx) ==
    LET keys == short_transaction_id_keys(cb.nonce, cb.header) IN
    short_transaction_id(keys[1], keys[2], tx)

\* the positions (from 0) of cb.short_ids that no transaction of `candidates` has
MissingIn(cb, candidates) ==
    {i - 1 : i \in {k \in 1 .. Len(cb.short_ids) :
                        \A tx \in candidates : ShortIdIn(cb, tx) # cb.short_ids[k]}}

\* ------------------------------------------------------------------------
\* C5. A transaction or full block is processed exactly on first sight: a
\* payload whose hash is not yet in the received-set is admitted
\* (add_to_memory_pool / process_new_block) and forwarded to every registered
\* peer with a session except the source; a payload whose hash is already in
\* the set is neither admitted nor forwarded.
\* ------------------------------------------------------------------------
C5_ProcessedOnFirstSight ==
    \A x \in handled :
        /\ x.kind = "transaction" =>
              IF x.newly
              THEN /\ admitted = Some(x.hash)
                   /\ relayed = RelayTargets(DOMAIN peer_state, sessions, x.peer)
              ELSE admitted = None /\ relayed = {}
        /\ x.kind = "block" =>
              IF x.newly
              THEN /\ submitted = Some(BlockOf(x.hash))
                   /\ relayed = RelayTargets(DOMAIN peer_state, sessions, x.peer)
              ELSE submitted = None /\ relayed = {}

\* ------------------------------------------------------------------------
\* C8. A compact block whose header hash is newly seen and whose short ids
\* all match transactions of the main pool is reconstructed, submitted to the
\* chain provider once and forwarded to the other peers; a later compact
\* block with the same hash causes no submission.
\* ------------------------------------------------------------------------
C8_CompactBlockFullHit ==
    \A x \in handled :
        x.kind = "compact_block" =>
            /\ (x.newly /\ MissingIn(CompactBlockOf(x.hash, x.nonce), pool) = {}) =>
                  /\ IsSome(submitted)
                  /\ Unwrap(submitted).header = x.hash
                  /\ relayed = RelayTargets(DOMAIN peer_state, sessions, x.peer)
            /\ ~x.newly => submitted = None

\* ------------------------------------------------------------------------
\* C9. Pending-reconstruction lifecycle: a newly seen compact block with
\* missing short ids makes the node send a BlockTransactionsRequest with the
\* block hash and exactly the missing indexes and store the compact block in
\* pending_compact_blocks; a BlockTransactions message for that hash removes
\* the entry and, when the supplied transactions fill every missing short
\* id, the block is submitted; a BlockTransactions message that finds no
\* entry causes no submission.
\* ------------------------------------------------------------------------
C9_PendingLifecycle ==
    \A x \in handled :
        /\ x.kind = "compact_block" =>
              LET cb == CompactBlockOf(x.hash, x.nonce)
                  missing == MissingIn(cb, pool \cup orphan)
              IN  (x.newly /\ missing # {}) =>
                    /\ responded =
                          Some([PayloadNew EXCEPT !.block_transactions_request =
                                  Some([hash |-> x.hash, indexes |-> Ascending(missing)])])
                    /\ Get(pending_compact_blocks, x.hash) = Some(cb)
        /\ x.kind = "block_transactions" =>
              /\ x.hash \notin DOMAIN pending_compact_blocks
              /\ IsNone(x.removed) => submitted = None
              /\ (/\ IsSome(x.removed)
                  /\ IsSome(x.candidates)
                  /\ MissingIn(Unwrap(x.removed),
                               Range(x.transactions) \cup Unwrap(x.candidates)) = {}) =>
                    /\ IsSome(submitted)
                    /\ Unwrap(submitted).header = x.hash

\* ------------------------------------------------------------------------
\* C10. A BlockTransactionsRequest for a block the node holds is answered
\* with a payload that carries a BlockTransactions message with that hash and
\* the block's transactions at the requested indexes, in request order,
\* out-of-range indexes omitted; for a hash the node does not hold nothing is
\* sent.
\* ------------------------------------------------------------------------
C10_BlockTransactionsResponse ==
    \A x \in handled :
        x.kind = "block_transactions_request" =>
            IF x.hash \in DOMAIN chain_blocks
            THEN responded =
                   Some([PayloadNew EXCEPT !.block_transactions =
                           Some([hash |-> x.hash,
                                 transactions |->
                                     RequestedTransactions(chain_blocks[x.hash], x.indexes)])])
            ELSE responded = None

\* ------------------------------------------------------------------------
\* Vocabulary for the claims about the dispatcher
\* ------------------------------------------------------------------------
\* the registry and the counters
RegistryState == <<peer_state, best_known_headers, n_sync, outbound_peers_with_protect>>

\* the work item a decodable sync message of the given kind stands for
HandleItemOf(peer, kind) ==
    CASE kind = "getheaders" -> HandleGetheaders(peer)
      [] kind = "headers" -> HandleHeaders(peer)
      [] kind = "getdata" -> HandleGetdata(peer)
      [] kind = "block" -> HandleBlock(peer)

SyncMessageKinds == {"getheaders", "headers", "getdata", "block"}

\* the call found no peer registered / a peer registered
SawNoPeers(e) == e.seen.no_peers = Some(TRUE)
SawPeers(e) == e.seen.no_peers = Some(FALSE)

\* the call found its condition on n_sync and is_initial_block_download to hold
SawGateOpen(e) == e.seen.gate = Some(TRUE)

\* the calls that evaluate that condition in this step: those that return
\* from it, and those that go on to try_send
GateReadNow ==
    {e \in event' : IsSome(e.seen.gate) /\ IsNone(e.seen.full)}
    \cup {Unwrap(transport_calls'[t]).event :
            t \in {u \in TransportThreads :
                     /\ IsSome(transport_calls'[u])
                     /\ transport_calls'[u] # transport_calls[u]
                     /\ Unwrap(transport_calls'[u]).pc = "try_send"
                     /\ IsSome(Unwrap(transport_calls'[u]).event.seen.gate)}}

\* the kinds of the items that wrap a message of a peer
HandleKinds == {"HandleGetheaders", "HandleHeaders", "HandleGetdata", "HandleBlock"}

\* the items of p's messages in a sequence of work items, in the order of the sequence
MessageItems(items, p) ==
    SelectSeq(items, LAMBDA x : x.kind \in HandleKinds /\ x.peer = p)

\* sequence a is the beginning of sequence b
IsPrefix(a, b) == Len(a) <= Len(b) /\ a = SubSeq(b, 1, Len(a))

\* ------------------------------------------------------------------------
\* C11. Backpressure: the channel never holds more than its bound, and a
\* call of read, connected or timeout made when the channel is full leaves
\* the channel and the registry as they were (the item is dropped).
\* ------------------------------------------------------------------------
C11_Backpressure ==
    [][/\ Len(queue') <= QueueCapacity
       /\ (IsSome(event') /\ Len(queue) >= QueueCapacity) =>
             /\ queue' = queue
             /\ RegistryState' = RegistryState
    ]_vars

\* ------------------------------------------------------------------------
\* C12. Whenever the channel is not full, connected(peer) enqueues exactly
\* one OnConnected(peer), timeout(token) exactly one SendGetHeadersToAll or
\* FetchBlock, and read of a sync message exactly one Handle* item, in every
\* state of the synchronizer: the call that returns in a step has appended
\* its item to the channel.
\* ------------------------------------------------------------------------
C12_OneItemPerEvent ==
    [][\A x \in event' :
          Len(queue) < QueueCapacity =>
            /\ x.call = "connected" => queue' = Append(queue, OnConnected(x.peer))
            /\ (x.call = "timeout" /\ x.token = SEND_GET_HEADERS_TOKEN) =>
                  queue' = Append(queue, SendGetHeadersToAll)
            /\ (x.call = "timeout" /\ x.token = BLOCK_FETCH_TOKEN) =>
                  queue' = Append(queue, FetchBlock)
            /\ (x.call = "read" /\ x.kind \in SyncMessageKinds) =>
                  queue' = Append(queue, HandleItemOf(x.peer, x.kind))
    ]_vars

\* ------------------------------------------------------------------------
\* C13. Queue ordering (O1): the items of a single peer's messages enter the
\* channel in the order the messages arrived (the order of the read calls);
\* the items the consumer has launched, followed by the items still queued,
\* are exactly the items enqueued, in the order they were enqueued: the
\* consumer launches in FIFO order, each item once, and nothing that was not
\* enqueued.
\* ------------------------------------------------------------------------
C13_ArrivalOrderFifo ==
    /\ \A p \in PeerIds :
          IsPrefix(MessageItems(enqueued, p), MessageItems(arrived, p))
    /\ enqueued = launched \o queue

\* ------------------------------------------------------------------------
\* C14. (I1) The disconnect flag is sticky: a step that keeps a peer
\* registered never turns its disconnect flag from true to false.
\* ------------------------------------------------------------------------
C14_DisconnectSticky ==
    [][\A p \in (DOMAIN peer_state) \cap (DOMAIN peer_state') :
          peer_state[p].disconnect => peer_state'[p].disconnect
    ]_vars

\* a pass has just armed the chain_sync record of a peer that an earlier
\* pass marked disconnect
C14_Witness ==
    /\ pass_done
    /\ \E p \in DOMAIN peer_state :
          /\ peer_state[p].disconnect
          /\ p \notin reported
          /\ h_headers_reported[p]
          /\ peer_state[p].chain_sync.timeout = now + CHAIN_SYNC_TIMEOUT

\* ------------------------------------------------------------------------
\* C15. The counter outbound_peers_with_protect and the number of registered
\* peers with the protect flag never exceed
\* MAX_OUTBOUND_PEERS_TO_PROTECT_FROM_DISCONNECT.
\* ------------------------------------------------------------------------
C15_ProtectBounded ==
    /\ outbound_peers_with_protect <= MAX_OUTBOUND_PEERS_TO_PROTECT_FROM_DISCONNECT
    /\ Cardinality({p \in DOMAIN peer_state : peer_state[p].chain_sync.protect})
          <= MAX_OUTBOUND_PEERS_TO_PROTECT_FROM_DISCONNECT

\* ------------------------------------------------------------------------
\* C16. While the node is in initial-block-download an eviction pass changes
\* no peer's chain_sync record, sends no chain_sync GetHeaders probe and
\* evicts no peer by the chain_sync rule.
\* ------------------------------------------------------------------------
C16_ChainSyncOnlyAfterIBD ==
    [][\A p \in DOMAIN peer_state :
          (ChainVisits(p) /\ PassIBD /\ is_initial_block_download) =>
             /\ peer_state'[p].chain_sync = peer_state[p].chain_sync
             /\ p \notin getheaders_sent'
             /\ p \notin eviction_chain'
    ]_vars

\* ------------------------------------------------------------------------
\* C17. Nothing aborts: every transport call and every spawned work item
\* returns normally (no handler panics).
\* ------------------------------------------------------------------------
C17_NoAbort == ~panicked

\* ------------------------------------------------------------------------
\* Vocabulary for the claims about the chain_sync states
\* ------------------------------------------------------------------------
\* p's best-known total difficulty is below our tip's, or absent
BehindTip(p) ==
    p \in DOMAIN best_known_headers => best_known_headers[p] < chain_tip

\* p's best-known total difficulty has reached that of its work_header
ReachedWorkHeader(p) ==
    /\ p \in DOMAIN best_known_headers
    /\ IsSome(peer_state[p].chain_sync.work_header)
    /\ best_known_headers[p] >= Unwrap(peer_state[p].chain_sync.work_header)

\* ------------------------------------------------------------------------
\* C18. S1 entry: a pass over an unprotected outbound peer (not taken by the
\* headers rule) that is behind our tip, with chain_sync.timeout = 0 or its
\* best-known difficulty at or above the recorded work_header, leaves
\* timeout = now + CHAIN_SYNC_TIMEOUT, work_header = Some(tip) and
\* sent_getheaders = false, and neither probes nor reports the peer.  The
\* peer is one the pass found unprotected and outbound after the headers rule
\* left it; now is the now_ms() the pass read when its loop came to the peer;
\* the tip is read, and compared with the best-known header, when the
\* chain_sync rule runs.
\* ------------------------------------------------------------------------
C18_S1Entry ==
    [][\A p \in DOMAIN peer_state :
          /\ ReachesChainSync(p)
          /\ (/\ ChainVisits(p)
              /\ BehindTip(p)
              /\ (peer_state[p].chain_sync.timeout = 0 \/ ReachedWorkHeader(p))) =>
                /\ peer_state'[p].chain_sync.timeout = VisitNow + CHAIN_SYNC_TIMEOUT
                /\ peer_state'[p].chain_sync.work_header = Some(chain_tip)
                /\ ~peer_state'[p].chain_sync.sent_getheaders
                /\ p \notin getheaders_sent'
                /\ p \notin PassEviction'
    ]_vars

\* a pass re-armed a peer that has headers but is behind a tip that advanced
C18_Witness ==
    /\ pass_done
    /\ chain_tip > 1
    /\ \E p \in DOMAIN peer_state :
          /\ p \in DOMAIN best_known_headers
          /\ best_known_headers[p] < chain_tip
          /\ peer_state[p].chain_sync.timeout = now + CHAIN_SYNC_TIMEOUT
          /\ peer_state[p].chain_sync.work_header = Some(chain_tip)
          /\ ~peer_state[p].chain_sync.sent_getheaders
          /\ now > 0

\* ------------------------------------------------------------------------
\* C19. S2 entry: a pass over an unprotected outbound peer behind our tip
\* with timeout > 0, now > timeout, sent_getheaders = false and not caught up
\* to work_header sends it one GetHeaders built from the recorded
\* work_header, sets sent_getheaders, sets timeout = now +
\* EVICTION_TEST_RESPONSE_TIME and does not mark or report it; while
\* sent_getheaders stays set no further probe is sent, and it is unset only
\* by re-arming (S1) or resetting (S0).  The peer is one the pass found
\* unprotected and outbound after the headers rule left it; now is the
\* now_ms() the pass read when its loop came to the peer; the tip is read when
\* the chain_sync rule runs, the only step that changes a registered peer's
\* chain_sync record.
\* ------------------------------------------------------------------------
C19_S2Entry ==
    [][\A p \in (DOMAIN peer_state) \cap (DOMAIN peer_state') :
          LET cs == peer_state[p].chain_sync
              csn == peer_state'[p].chain_sync
          IN
          /\ ReachesChainSync(p)
          /\ (csn # cs \/ (p \in getheaders_sent' /\ p \notin getheaders_sent))
                => ChainVisits(p)
          /\ ChainVisits(p) =>
             /\ (/\ BehindTip(p)
                 /\ cs.timeout > 0
                 /\ VisitNow > cs.timeout
                 /\ ~cs.sent_getheaders
                 /\ ~ReachedWorkHeader(p)) =>
                   /\ p \in getheaders_sent'
                   /\ IsSome(cs.work_header)
                   /\ getheaders_tip'[p] = Unwrap(cs.work_header)
                   /\ csn.sent_getheaders
                   /\ csn.timeout = VisitNow + EVICTION_TEST_RESPONSE_TIME
                   /\ peer_state'[p].disconnect = peer_state[p].disconnect
                   /\ p \notin PassEviction'
             /\ cs.sent_getheaders => p \notin getheaders_sent'
             /\ (cs.sent_getheaders /\ ~csn.sent_getheaders) =>
                   \/ csn = ChainSyncDefault(FALSE)
                   \/ /\ csn.timeout = VisitNow + CHAIN_SYNC_TIMEOUT
                      /\ csn.work_header = Some(chain_tip)
    ]_vars

\* a pass has just probed a peer
C19_Witness ==
    /\ pass_done
    /\ \E p \in getheaders_sent :
          /\ peer_state[p].chain_sync.sent_getheaders
          /\ peer_state[p].chain_sync.timeout = now + EVICTION_TEST_RESPONSE_TIME
          /\ getheaders_tip[p] = Unwrap(peer_state[p].chain_sync.work_header)
          /\ ~peer_state[p].disconnect
          /\ p \notin reported

\* ------------------------------------------------------------------------
\* C20. S0 re-entry: after a pass over an unprotected outbound peer (not
\* taken by the headers rule) whose best-known total difficulty is at or
\* above our tip's, the peer's chain_sync is in S0, whatever it was before,
\* and the peer is not reported in that pass.  The peer is one the pass
\* found unprotected and outbound after the headers rule left it; the tip is
\* read, and compared with the best-known header, when the chain_sync rule
\* runs; no later step of the pass pushes the peer.
\* ------------------------------------------------------------------------
C20_S0ReEntry ==
    [][\A p \in DOMAIN peer_state :
          /\ ReachesChainSync(p)
          /\ (/\ ChainVisits(p)
              /\ p \in DOMAIN best_known_headers
              /\ best_known_headers[p] >= chain_tip) =>
                /\ peer_state'[p].chain_sync = ChainSyncDefault(FALSE)
                /\ p \notin PassEviction'
          /\ (/\ IsSome(pass) /\ IsSome(pass')
              /\ p \notin Unwrap(pass).todo
              /\ p \notin PassEviction) => p \notin PassEviction'
    ]_vars

\* a pass has just put back in S0 a peer that the chain_sync rule had
\* evicted before its headers caught up
C20_Witness ==
    /\ pass_done
    /\ \E p \in DOMAIN peer_state :
          /\ ~peer_state[p].chain_sync.protect
          /\ is_outbound(sessions, p) = Some(TRUE)
          /\ p \in DOMAIN best_known_headers
          /\ best_known_headers[p] >= chain_tip
          /\ peer_state[p].chain_sync = ChainSyncDefault(FALSE)
          /\ peer_state[p].disconnect
          /\ ~h_headers_reported[p]
          /\ p \notin reported

\* ------------------------------------------------------------------------
\* C21. (I3) In every reachable state and for every peer: work_header is
\* Some only if chain_sync.timeout is nonzero, sent_getheaders is set only if
\* work_header is Some, and the probe branch of eviction never finds
\* work_header absent.
\* ------------------------------------------------------------------------
C21_WorkHeaderPresent ==
    \A p \in DOMAIN peer_state :
       LET cs == peer_state[p].chain_sync IN
       /\ IsSome(cs.work_header) => cs.timeout # 0
       /\ cs.sent_getheaders => IsSome(cs.work_header)
       /\ \A t \in 0 .. MaxNow :
             ChainSyncBranch(cs, Get(best_known_headers, p), chain_tip, t) # "panic"
       /\ ~panicked

\* a pass has just read the work_header of a peer to probe it
C21_Witness ==
    /\ pass_done
    /\ \E p \in getheaders_sent :
          /\ IsSome(peer_state[p].chain_sync.work_header)
          /\ getheaders_tip[p] \in Difficulties
          /\ peer_state[p].chain_sync.timeout # 0

\* ------------------------------------------------------------------------
\* C22. Whenever the SEND_GET_HEADERS_TOKEN or BLOCK_FETCH_TOKEN timer fires
\* while peers are registered, an eviction pass over all peer states is
\* performed.
\* ------------------------------------------------------------------------
C22_EvictionOnTimerTick ==
    [][\A e \in event' :
          (e.call = "timeout" /\ e.token \in TimerTokens /\ SawPeers(e))
             => (IsSome(pass') \/ pass_done')
    ]_vars

\* ------------------------------------------------------------------------
\* C23. Short-id collisions are benign: when reconstruct_block returns a
\* block, every position holds the only candidate its short id can refer to;
\* a position whose short id is shared by two distinct candidates is never
\* filled with one of them but goes to the missing indexes.
\* ------------------------------------------------------------------------
C23_CollisionsBenign ==
    (IsSome(rb_result) /\ IsSome(Unwrap(rb_result).block)) =>
        \A i \in 1 .. Len(RbShortIds) :
           \A tx \in RbCandidates :
              RbShortId(tx) = RbShortIds[i] =>
                 Unwrap(Unwrap(rb_result).block).transactions[i] = tx

\* the number of SendGetHeadersToAll items in a sequence of work items
BroadcastItems(items) ==
    Cardinality({k \in 1 .. Len(items) : items[k] = SendGetHeadersToAll})

\* ------------------------------------------------------------------------
\* Vocabulary for the claim about the GetHeaders broadcast
\* ------------------------------------------------------------------------
\* the timer call for SEND_GET_HEADERS_TOKEN enqueues one SendGetHeadersToAll
\* exactly when it found peers registered and its condition on n_sync and
\* initial-block-download to hold, the condition being n_sync = 0 or not
\* initial-block-download when it is evaluated; the call sends nothing, and
\* nothing else enqueues that item
BroadcastEnqueued ==
    /\ \A e \in GateReadNow :
          e.seen.gate = Some(n_sync = 0 \/ ~is_initial_block_download)
    /\ \A e \in event' :
          (e.call = "timeout" /\ e.token = SEND_GET_HEADERS_TOKEN) =>
             /\ IF SawPeers(e) /\ SawGateOpen(e)
                THEN /\ queue' = Append(queue, SendGetHeadersToAll)
                     /\ enqueued' = Append(enqueued, SendGetHeadersToAll)
                ELSE /\ queue' = queue
                     /\ enqueued' = enqueued
             /\ getheaders_sent' = {}
    /\ BroadcastItems(enqueued') > BroadcastItems(enqueued) =>
          \E e \in event' : e.call = "timeout" /\ e.token = SEND_GET_HEADERS_TOKEN

\* GetHeaders is sent only by a launched SendGetHeadersToAll that ends and by
\* a launched OnConnected that ends, which sends one to its peer
BroadcastOnlySender ==
    getheaders_sent' # {} =>
        \E i \in DOMAIN running :
           /\ i \notin DOMAIN running'
           /\ \/ launched[i] = SendGetHeadersToAll
              \/ /\ launched[i].kind = "OnConnected"
                 /\ getheaders_sent' = {launched[i].peer}

\* the launched SendGetHeadersToAll numbered i sends its GetHeaders in this step
BroadcastSends(i) ==
    /\ i \in DOMAIN running
    /\ launched[i] = SendGetHeadersToAll
    /\ i \notin DOMAIN running'

\* ------------------------------------------------------------------------
\* C24 (as claimed). A SEND_GET_HEADERS_TOKEN timer event enqueues one
\* SendGetHeadersToAll item exactly when peers are registered and (n_sync is
\* 0 or the node is not in initial-block-download), and nothing otherwise;
\* when the item runs, one GetHeaders goes to each peer registered at the
\* time it is sent.
\* ------------------------------------------------------------------------
C24_GetHeadersBroadcast ==
    [][/\ BroadcastEnqueued
       /\ BroadcastOnlySender
       /\ \A i \in DOMAIN running :
             BroadcastSends(i) => getheaders_sent' = DOMAIN peer_state
    ]_vars

\* ------------------------------------------------------------------------
\* C24 (amended). The same, the GetHeaders going to each peer that was
\* registered when the item read the keys of the registry, registered still
\* or not, each built from the tip the item read after the keys.
\* ------------------------------------------------------------------------
C24_GetHeadersBroadcastAsRead ==
    [][/\ BroadcastEnqueued
       /\ BroadcastOnlySender
       /\ \A i \in DOMAIN running :
             /\ (launched[i] = SendGetHeadersToAll /\ i \in DOMAIN running') =>
                   /\ running'[i].peer_ids # running[i].peer_ids =>
                         (running[i].pc = "peer_ids"
                            /\ running'[i].peer_ids = DOMAIN peer_state)
                   /\ running'[i].tip # running[i].tip =>
                         (running[i].pc = "tip_header_of_all"
                            /\ running'[i].tip = Some(chain_tip))
             /\ BroadcastSends(i) =>
                   /\ getheaders_sent' = running[i].peer_ids
                   /\ \A p \in running[i].peer_ids :
                         getheaders_tip'[p] = Unwrap(running[i].tip)
                   /\ peer_state' = peer_state
    ]_vars

\* a launched SendGetHeadersToAll has just sent GetHeaders to two peers, one
\* of which was removed from the registry after the item read its keys
C24_Witness ==
    /\ Cardinality(getheaders_sent) = 2
    /\ \E p \in getheaders_sent : p \notin DOMAIN peer_state
    /\ \E k \in 1 .. Len(launched) :
          launched[k] = SendGetHeadersToAll /\ k \notin DOMAIN running
    /\ n_sync > 0

\* ------------------------------------------------------------------------
\* C26. Connect/disconnect ordering: for a peer whose connected() was queued
\* as OnConnected, whose last connected/disconnected call is disconnected()
\* and whose session has ended, the registry holds no state once the queue
\* has drained and every launched item has finished.
\* ------------------------------------------------------------------------
C26_DisconnectedLeavesNoState ==
    (queue = <<>> /\ running = EmptyMap) =>
        \A p \in h_disconnected :
           p \notin DOMAIN sessions => p \notin DOMAIN peer_state

\* ------------------------------------------------------------------------
\* Vocabulary for the liveness of eviction
\* ------------------------------------------------------------------------
\* p is registered, unprotected and outbound, and its best-known total
\* difficulty is b: absent, or below our tip's
Stalled(p, b) ==
    /\ p \in DOMAIN peer_state
    /\ ~peer_state[p].chain_sync.protect
    /\ is_outbound(sessions, p) = Some(TRUE)
    /\ Get(best_known_headers, p) = b
    /\ IsSome(b) => Unwrap(b) < chain_tip

\* the last pass marked p disconnect and reported it; when the chain_sync rule
\* did so, p had been probed since it was armed
Evicted(p) ==
    /\ p \in DOMAIN peer_state
    /\ peer_state[p].disconnect
    /\ p \in reported
    /\ \/ p \in eviction_headers
       \/ p \in eviction_chain /\ IsSome(h_probe_at[p])

\* the next pass that visits p arms it: p is not armed, or its best-known
\* header has caught up with the work header it was armed with
ToBeArmed(p, b) ==
    LET cs == peer_state[p].chain_sync IN
    \/ cs.timeout = 0
    \/ /\ IsSome(b)
       /\ IsSome(cs.work_header)
       /\ Unwrap(b) >= Unwrap(cs.work_header)

Max(a, b) == IF a >= b THEN a ELSE b

\* the first instant of the clock at which a pass can evict p by the
\* chain_sync rule: a peer to be armed is armed now at the earliest, probed
\* after CHAIN_SYNC_TIMEOUT has passed and evicted after
\* EVICTION_TEST_RESPONSE_TIME more has passed; an armed peer is probed after
\* its timeout, a probed one is evicted after its timeout
EarliestEviction(p, b) ==
    LET cs == peer_state[p].chain_sync IN
    IF ToBeArmed(p, b)
    THEN now + CHAIN_SYNC_TIMEOUT + 1 + EVICTION_TEST_RESPONSE_TIME + 1
    ELSE IF ~cs.sent_getheaders
    THEN Max(now, cs.timeout + 1) + EVICTION_TEST_RESPONSE_TIME + 1
    ELSE Max(now, cs.timeout + 1)

\* the clock's range ends before a pass can evict p
ClockExhausted(p, b) ==
    /\ p \in DOMAIN peer_state
    /\ EarliestEviction(p, b) > MaxNowLive

\* ------------------------------------------------------------------------
\* C27. Eviction liveness: an unprotected outbound peer that stays
\* registered, and whose best-known header never changes and stays below our
\* tip (or absent), is eventually marked disconnect and reported, the
\* chain_sync rule doing so only after arming and probing it, provided passes
\* keep occurring and the clock keeps advancing: unless the clock, which the
\* model stops at MaxNowLive, has moved on so far that its range ends before
\* the instant a pass can evict the peer.
\* ------------------------------------------------------------------------
C27_EvictionLiveness ==
    \A p \in LivePeers :
       \A b \in {None} \cup {Some(d) : d \in Difficulties} :
          Stalled(p, b)
             ~> (Evicted(p) \/ ~Stalled(p, b) \/ ClockExhausted(p, b))

\* the chain_sync rule has just evicted, before the end of the clock's range,
\* a peer without headers that the headers rule never took and that was armed
\* and probed later than the first instant at which it could be
C27_Witness ==
    /\ pass_done
    /\ now < MaxNowLive
    /\ \E p \in eviction_chain :
          /\ peer_state[p].disconnect
          /\ ~h_headers_reported[p]
          /\ IsSome(h_probe_at[p])
          /\ Unwrap(h_probe_at[p]) > CHAIN_SYNC_TIMEOUT + 1
          /\ Stalled(p, None)

\* ------------------------------------------------------------------------
\* Vocabulary for the lock ordering
\* ------------------------------------------------------------------------
PoolLocks == {"tx_pool.pool", "tx_pool.orphan"}

\* taking `wanted` while `held` is held breaks the order
\* state, best_known_headers, pending_compact_blocks, pool locks
OutOfOrder(held, wanted) ==
    \/ /\ wanted = "peers.state"
       /\ held \in {"peers.best_known_headers", "pending_compact_blocks"}
    \/ /\ wanted = "peers.best_known_headers"
       /\ held = "pending_compact_blocks"
    \/ /\ wanted \in {"peers.state", "peers.best_known_headers", "pending_compact_blocks"}
       /\ held \in PoolLocks

\* a handler is running and every running handler waits for a lock
AllWaiting ==
    /\ \E t \in LockTasks : lock_task[t].path # "idle"
    /\ \A t \in LockTasks :
          lock_task[t].path # "idle" =>
             /\ NextOp(t).op = "acquire"
             /\ ~Available(NextOp(t).lock, NextOp(t).mode, t)

\* ------------------------------------------------------------------------
\* C25. Lock ordering holds on every path: no handler takes registry.state
\* while holding best_known_headers or pending_compact_blocks, none takes
\* best_known_headers while holding pending_compact_blocks, none takes any of
\* the three while holding a transaction-pool lock; and no interleaving of
\* the handlers reaches a state where every running handler waits.
\* ------------------------------------------------------------------------
C25_LockOrdering ==
    [][/\ \A t \in LockTasks :
             \A new \in Held(t)' \ Held(t) :
                \A old \in Held(t) : ~OutOfOrder(old.lock, new.lock)
       /\ ~AllWaiting'
    ]_vars

\* an eviction pass holds peer_state and best_known_headers and waits for
\* nothing while the block-transactions branch holds pending_compact_blocks
\* and a pool lock and a third handler waits for the registry
C25_Witness ==
    \E t, u, v \in LockTasks :
       /\ {h.lock : h \in Held(t)} = {"peers.state", "peers.best_known_headers"}
       /\ {h.lock : h \in Held(u)} = {"pending_compact_blocks", "tx_pool.orphan"}
       /\ lock_task[v].path = "send_getheaders_to_all"
       /\ NextOp(v).op = "acquire"
       /\ ~Available(NextOp(v).lock, NextOp(v).mode, v)
====
